---- MODULE Spec2Model ----
(***************************************************************************)
(* Plan-It: the session context and plan-state layer.                      *)
(*                                                                         *)
(* One chat turn (backend/server.py chat) fetches a Session from the       *)
(* session store, runs the three graph nodes of backend/agent.py           *)
(* (preprocess -> generate -> postprocess) on it and saves the result.     *)
(* The two LLM calls (the compression summary inside maybe_compress and    *)
(* the structured decision inside generate_node) are the steps whose       *)
(* outcome the environment chooses.                                        *)
(*                                                                         *)
(* Python objects are modelled with a heap: a Session object is a cell of  *)
(* heap, state["session"] is a reference to it.  The in-memory store keeps *)
(* references (so an in-place mutation is visible through the store), the  *)
(* MongoDB store keeps documents (values).                                 *)
(***************************************************************************)
EXTENDS Integers, Sequences, FiniteSets, TLC

\* ------------------------------------------------------------------------
\* Bounds of the model
\* ------------------------------------------------------------------------

\* Number of chat turns handed to the agent in one behaviour.
MaxTurns == 3

\* ------------------------------------------------------------------------
\* Strings
\* ------------------------------------------------------------------------
\* A Python str is modelled as its words (joined by single blanks) followed
\* by pad filler characters that belong to no keyword.  None is a value of
\* its own, different from the empty string.

None == [none |-> TRUE]

Str(toks, pad) == [toks |-> toks, pad |-> pad]

EmptyStr == Str(<<>>, 0)

RECURSIVE SumTokLen(_)
SumTokLen(toks) ==
    IF toks = <<>> THEN 0 ELSE Len(Head(toks)) + SumTokLen(Tail(toks))

\* len(s)
StrLen(s) ==
    SumTokLen(s.toks) + (IF Len(s.toks) > 0 THEN Len(s.toks) - 1 ELSE 0) + s.pad

\* bool(s) for an Optional[str]: None and "" are falsy.
Truthy(s) == s # None /\ StrLen(s) > 0

\* str.lower() on one word
LowerTok(t) ==
    CASE t = "Concise"  -> "concise"
      [] t = "FORMAL"   -> "formal"
      [] t = "Informal" -> "informal"
      [] OTHER          -> t

\* word in tok, for a lower-cased tok: equality, or a catalog word inside a
\* longer word.
SubstringOf(word, tok) ==
    \/ word = tok
    \/ word = "formal" /\ tok = "informal"
    \/ word = "short" /\ tok = "shortly"

\* word in text.lower()
ContainsWord(text, word) ==
    \E i \in 1..Len(text.toks) : SubstringOf(word, LowerTok(text.toks[i]))

\* ------------------------------------------------------------------------
\* backend/models.py
\* ------------------------------------------------------------------------

ActionType == {"NONE", "PROPOSE", "CREATE", "UPDATE"}

USER == "user"
ASSISTANT == "assistant"
SYSTEM == "system"

\* Plan values an LLM decision can carry (two different drafts).
Plans == {[title |-> "p1"], [title |-> "p2"]}

Message(role, content) ==
    [role |-> role, content |-> content, is_blocked |-> FALSE]

PlanVersion(version, plan, change_summary) ==
    [version |-> version, plan |-> plan, change_summary |-> change_summary]

\* Session(session_id=..., user_id=...) with every other field at its default.
Session(session_id, user_id) ==
    [session_id           |-> session_id,
     user_id              |-> user_id,
     messages             |-> <<>>,
     current_plan         |-> None,
     pending_plan         |-> None,
     plan_versions        |-> <<>>,
     user_preferences     |-> <<>>,
     compressed_context   |-> None,
     conversation_summary |-> None,
     turn_count           |-> 0]

\* ------------------------------------------------------------------------
\* backend/context_manager.py
\* ------------------------------------------------------------------------

TOKEN_LIMIT == 8000
CHARS_PER_TOKEN == 4
CHAR_LIMIT == TOKEN_LIMIT * CHARS_PER_TOKEN

\* int(CHAR_LIMIT * 0.75)
COMPRESSION_THRESHOLD == (CHAR_LIMIT * 75) \div 100

keep_recent == 4

\* _PREFERENCE_KEYWORDS in its iteration order: <<category, word, value>>.
PREFERENCE_KEYWORDS ==
    << <<"detail_level", "detailed", "detailed">>,
       <<"detail_level", "brief", "brief">>,
       <<"detail_level", "concise", "brief">>,
       <<"detail_level", "verbose", "detailed">>,
       <<"detail_level", "short", "brief">>,
       <<"tone", "formal", "formal">>,
       <<"tone", "casual", "casual">>,
       <<"tone", "professional", "formal">>,
       <<"tone", "friendly", "casual">> >>

\* updated[pref_key] = value
DictSet(d, k, v) == (k :> v) @@ d

\* The scan of extract_preferences over the first n catalog entries.
RECURSIVE ScanPreferences(_, _, _)
ScanPreferences(text, updated, n) ==
    IF n = 0 THEN updated
    ELSE LET before == ScanPreferences(text, updated, n - 1)
             entry  == PREFERENCE_KEYWORDS[n]
         IN IF ContainsWord(text, entry[2])
               THEN DictSet(before, entry[1], entry[3])
               ELSE before

\* Seeded fault: a category that has matched keeps its first match (a break
\* out of the inner loop): the entries are applied from the last to the first.
RECURSIVE ScanFirstWins(_, _, _)
ScanFirstWins(text, updated, n) ==
    IF n = 0 THEN updated
    ELSE LET entry == PREFERENCE_KEYWORDS[n]
         IN ScanFirstWins(text,
                          IF ContainsWord(text, entry[2])
                             THEN DictSet(updated, entry[1], entry[3])
                             ELSE updated,
                          n - 1)

extract_preferences_first_wins(text, existing) ==
    ScanFirstWins(text, existing, Len(PREFERENCE_KEYWORDS))

extract_preferences(text, existing) ==
    ScanPreferences(text, existing, Len(PREFERENCE_KEYWORDS))

\* The dict passed as existing, after the call: updated = dict(existing) is
\* a copy, and every assignment of the loop goes to the copy.
ExistingAfterExtract(text, existing) == existing

RECURSIVE SumContentLen(_)
SumContentLen(messages) ==
    IF messages = <<>> THEN 0
    ELSE StrLen(Head(messages).content) + SumContentLen(Tail(messages))

\* total_chars of maybe_compress
total_chars(session) ==
    SumContentLen(session.messages)
    + (IF Truthy(session.compressed_context)
          THEN StrLen(session.compressed_context) ELSE 0)

\* session.messages[:-keep_recent] if len(session.messages) > keep_recent else []
messages_to_compress(session) ==
    IF Len(session.messages) > keep_recent
       THEN SubSeq(session.messages, 1, Len(session.messages) - keep_recent)
       ELSE <<>>

\* Seeded fault: the slice is off by one and keeps keep_recent + 1 messages.
recent_messages_one_more(session) ==
    IF Len(session.messages) > keep_recent + 1
       THEN SubSeq(session.messages, Len(session.messages) - keep_recent,
                   Len(session.messages))
       ELSE session.messages

\* session.messages[-keep_recent:] if len(session.messages) > keep_recent
\* else session.messages
recent_messages(session) ==
    IF Len(session.messages) > keep_recent
       THEN SubSeq(session.messages, Len(session.messages) - keep_recent + 1,
                   Len(session.messages))
       ELSE session.messages

\* The content f"[Prior compressed context]: {compressed_context}"
PriorContext(digest) == [tag |-> "prior_compressed_context", digest |-> digest]

\* Seeded fault: the previous digest is left out of what is summarized.
all_to_compress_without_digest(session) == messages_to_compress(session)

all_to_compress(session) ==
    (IF Truthy(session.compressed_context)
        THEN << Message(SYSTEM, PriorContext(session.compressed_context)) >>
        ELSE <<>>)
    \o messages_to_compress(session)

\* Seeded fault: the threshold test is total_chars <= COMPRESSION_THRESHOLD.
CompressionFiresAboveThreshold(session) ==
    /\ ~(total_chars(session) <= COMPRESSION_THRESHOLD)
    /\ ~(messages_to_compress(session) = <<>>
         /\ ~Truthy(session.compressed_context))

\* maybe_compress gets as far as the summarization call.
CompressionFires(session) ==
    /\ ~(total_chars(session) < COMPRESSION_THRESHOLD)
    /\ ~(messages_to_compress(session) = <<>>
         /\ ~Truthy(session.compressed_context))

\* The prompt compress_history builds from its arguments.
CompressionPrompt(messages, current_plan, user_preferences) ==
    [history |-> [i \in 1..Len(messages) |->
                    [role |-> messages[i].role, content |-> messages[i].content]],
     plan    |-> current_plan,
     prefs   |-> user_preferences]

\* Seeded fault: the old messages are cut from the session before the
\* summarization call is awaited.
AwaitingSummaryTruncated(session) ==
    [session EXCEPT !.messages = recent_messages(session)]

\* Seeded fault: the digest about to be replaced is cleared on the session
\* itself before the summarization call is awaited.
AwaitingSummaryClearsDigest(session) ==
    [session EXCEPT !.compressed_context = None, !.messages = recent_messages(session)]

\* The session object while maybe_compress awaits compress_history: the
\* slices and the list handed to the summarizer are new lists, the session
\* itself has not been assigned to.
AwaitingSummary(session) == session

\* Seeded fault: the copy is built from scratch and leaves the pending
\* proposal behind.
CompressedCopyDropsPending(session, compressed) ==
    [session EXCEPT !.compressed_context = compressed,
                    !.messages = recent_messages(session),
                    !.pending_plan = None]

\* Seeded fault: the slice keeps the oldest messages instead of the newest.
CompressedCopyKeepsOldest(session, compressed) ==
    [session EXCEPT !.compressed_context = compressed,
                    !.messages = IF Len(@) > keep_recent
                                    THEN SubSeq(@, 1, keep_recent) ELSE @]

\* Seeded fault: the copy starts the version log afresh.
CompressedCopyDropsVersions(session, compressed) ==
    [session EXCEPT !.compressed_context = compressed,
                    !.messages = recent_messages(session),
                    !.plan_versions = <<>>]

\* new_session of maybe_compress: a deep copy with two fields replaced.
CompressedCopy(session, compressed) ==
    [session EXCEPT !.compressed_context = compressed,
                    !.messages = recent_messages(session)]

\* The content f"[Compressed prior context]\n{compressed_context}"
CompressedNote(digest) == [tag |-> "compressed_prior_context", digest |-> digest]

\* Seeded fault: the is_blocked test is missing.
RECURSIVE AllParts(_)
AllParts(messages) ==
    IF messages = <<>> THEN <<>>
    ELSE << [role |-> Head(messages).role, content |-> Head(messages).content] >>
         \o AllParts(Tail(messages))

RECURSIVE UnblockedParts(_)
UnblockedParts(messages) ==
    IF messages = <<>> THEN <<>>
    ELSE (IF Head(messages).is_blocked THEN <<>>
          ELSE << [role |-> Head(messages).role,
                   content |-> Head(messages).content] >>)
         \o UnblockedParts(Tail(messages))

build_context_messages(session) ==
    (IF Truthy(session.compressed_context)
        THEN << [role |-> SYSTEM,
                 content |-> CompressedNote(session.compressed_context)] >>
        ELSE <<>>)
    \o UnblockedParts(session.messages)

\* The session passed to build_context_messages, after the call: the
\* function reads compressed_context and messages and assigns to neither.
SessionAfterContext(session) == session

\* ------------------------------------------------------------------------
\* backend/agent.py: the three graph nodes as functions of the session
\* ------------------------------------------------------------------------

\* The synchronous head of preprocess_node: record the user message, count
\* the turn, update the preferences.
Ingest(session, user_input) ==
    [session EXCEPT
        !.messages = Append(@, Message(USER, user_input)),
        !.turn_count = @ + 1,
        !.user_preferences = extract_preferences(user_input, @)]

\* lc_messages of generate_node: the system prompt, the optional notes on
\* the confirmed plan, the pending plan and the preferences, then the
\* assembled context.
lc_messages(session) ==
    << [role |-> SYSTEM, content |-> [tag |-> "SYSTEM_PROMPT"]] >>
    \o (IF session.current_plan # None
           THEN << [role |-> SYSTEM,
                    content |-> [tag |-> "current_confirmed_plan",
                                 plan |-> session.current_plan]] >>
           ELSE <<>>)
    \o (IF session.pending_plan # None
           THEN << [role |-> SYSTEM,
                    content |-> [tag |-> "pending_proposed_plan",
                                 plan |-> session.pending_plan]] >>
           ELSE <<>>)
    \o (IF DOMAIN session.user_preferences # {}
           THEN << [role |-> SYSTEM,
                    content |-> [tag |-> "detected_user_preferences",
                                 prefs |-> session.user_preferences]] >>
           ELSE <<>>)
    \o build_context_messages(session)

FALLBACK_REPLY ==
    Str(<<"I'm sorry, I ran into an issue processing your request. Could you try rephrasing?">>, 0)

CREATE_FALLBACK_SUMMARY == Str(<<"Plan confirmed and created.">>, 0)

UPDATE_FALLBACK_SUMMARY == Str(<<"Plan updated.">>, 0)

\* x or default, for an Optional[str] x
OrElse(x, default) == IF Truthy(x) THEN x ELSE default

\* if error or agent_resp is None
Degraded(agent_resp, error) == Truthy(error) \/ agent_resp = None

\* Seeded fault: the decision's change_summary is taken as it comes.
NextVersionRawSummary(session, agent_resp, fallback) ==
    PlanVersion(Len(session.plan_versions) + 1, agent_resp.plan,
                agent_resp.change_summary)

\* new PlanVersion(version=len(plan_versions) + 1, plan, change_summary or ...)
NextVersion(session, agent_resp, fallback) ==
    PlanVersion(Len(session.plan_versions) + 1, agent_resp.plan,
                OrElse(agent_resp.change_summary, fallback))

\* Seeded fault: PROPOSE finalizes the plan at once.
ProposeBranchPromotes(session, agent_resp) ==
    [session EXCEPT !.pending_plan = agent_resp.plan,
                    !.current_plan = agent_resp.plan]

\* PROPOSE with a plan: store it as pending, do not finalize.
ProposeBranch(session, agent_resp) ==
    [session EXCEPT !.pending_plan = agent_resp.plan]

\* Seeded fault: CREATE is applied only to the plan that is pending.
CreateBranchNeedsProposal(session, agent_resp) ==
    IF session.pending_plan = agent_resp.plan
       THEN [session EXCEPT
                !.current_plan = agent_resp.plan,
                !.pending_plan = None,
                !.plan_versions =
                    Append(@, PlanVersion(Len(session.plan_versions) + 1,
                                          agent_resp.plan,
                                          IF Truthy(agent_resp.change_summary)
                                             THEN agent_resp.change_summary
                                             ELSE Str(<<"Plan confirmed and created.">>, 0)))]
       ELSE session

\* Seeded fault: CREATE forgets to clear the pending plan.
CreateBranchKeepsPending(session, agent_resp) ==
    [session EXCEPT
        !.current_plan = agent_resp.plan,
        !.plan_versions =
            Append(@, NextVersion(session, agent_resp, CREATE_FALLBACK_SUMMARY))]

\* CREATE with a plan: promote it to the current plan, clear pending.
CreateBranch(session, agent_resp) ==
    [session EXCEPT
        !.current_plan = agent_resp.plan,
        !.pending_plan = None,
        !.plan_versions =
            Append(@, NextVersion(session, agent_resp, CREATE_FALLBACK_SUMMARY))]

\* Seeded fault: UPDATE numbers the new version len(plan_versions).
UpdateBranchRenumbers(session, agent_resp) ==
    [session EXCEPT
        !.current_plan = agent_resp.plan,
        !.plan_versions =
            Append(@, PlanVersion(Len(@), agent_resp.plan,
                                  OrElse(agent_resp.change_summary,
                                         UPDATE_FALLBACK_SUMMARY)))]

\* Seeded fault: UPDATE records the version and leaves current_plan as it was.
UpdateBranchKeepsCurrent(session, agent_resp) ==
    [session EXCEPT
        !.plan_versions =
            Append(@, NextVersion(session, agent_resp, UPDATE_FALLBACK_SUMMARY))]

\* Seeded fault: UPDATE clears the pending plan as CREATE does.
UpdateBranchClearsPending(session, agent_resp) ==
    [session EXCEPT
        !.current_plan = agent_resp.plan,
        !.pending_plan = None,
        !.plan_versions =
            Append(@, NextVersion(session, agent_resp, UPDATE_FALLBACK_SUMMARY))]

\* UPDATE with a plan: replace the current plan, pending untouched.
UpdateBranch(session, agent_resp) ==
    [session EXCEPT
        !.current_plan = agent_resp.plan,
        !.plan_versions =
            Append(@, NextVersion(session, agent_resp, UPDATE_FALLBACK_SUMMARY))]

\* Seeded fault: a plan that comes with any other action replaces the
\* current plan.
ApplyPlanActionTakesAnyPlan(session, agent_resp) ==
    IF agent_resp.action = "PROPOSE" /\ agent_resp.plan # None
       THEN ProposeBranch(session, agent_resp)
    ELSE IF agent_resp.action = "CREATE" /\ agent_resp.plan # None
       THEN CreateBranch(session, agent_resp)
    ELSE IF agent_resp.action = "UPDATE" /\ agent_resp.plan # None
       THEN UpdateBranch(session, agent_resp)
    ELSE IF agent_resp.plan # None
       THEN [session EXCEPT !.current_plan = agent_resp.plan]
    ELSE session

\* The if / elif chain of postprocess_node: each branch needs its action and
\* a plan; anything else changes no plan state.
ApplyPlanAction(session, agent_resp) ==
    IF agent_resp.action = "PROPOSE" /\ agent_resp.plan # None
       THEN ProposeBranch(session, agent_resp)
    ELSE IF agent_resp.action = "CREATE" /\ agent_resp.plan # None
       THEN CreateBranch(session, agent_resp)
    ELSE IF agent_resp.action = "UPDATE" /\ agent_resp.plan # None
       THEN UpdateBranch(session, agent_resp)
    ELSE session

\* Persist the rolling conversation summary.
ApplySummary(session, agent_resp) ==
    IF Truthy(agent_resp.conversation_summary)
       THEN [session EXCEPT !.conversation_summary = agent_resp.conversation_summary]
       ELSE session

\* Seeded fault: the degraded path takes back the turn count and still
\* records the fallback reply.
\* Seeded fault: the degraded path records no fallback message.
PostprocessedDegradedSilent(session, agent_resp, error) ==
    IF Degraded(agent_resp, error)
       THEN session
       ELSE ApplySummary(
                ApplyPlanAction(
                    [session EXCEPT
                        !.messages =
                            Append(@, Message(ASSISTANT, agent_resp.response_to_user))],
                    agent_resp),
                agent_resp)

PostprocessedRollsBackCount(session, agent_resp, error) ==
    IF Degraded(agent_resp, error)
       THEN [session EXCEPT
                !.messages = Append(@, Message(ASSISTANT, FALLBACK_REPLY)),
                !.turn_count = @ - 1]
       ELSE ApplySummary(
                ApplyPlanAction(
                    [session EXCEPT
                        !.messages =
                            Append(@, Message(ASSISTANT, agent_resp.response_to_user))],
                    agent_resp),
                agent_resp)

\* Seeded fault: the degraded path drops the pending proposal.
PostprocessedDegradedDropsPending(session, agent_resp, error) ==
    IF Degraded(agent_resp, error)
       THEN [session EXCEPT
                !.messages = Append(@, Message(ASSISTANT, FALLBACK_REPLY)),
                !.pending_plan = None]
       ELSE ApplySummary(
                ApplyPlanAction(
                    [session EXCEPT
                        !.messages =
                            Append(@, Message(ASSISTANT, agent_resp.response_to_user))],
                    agent_resp),
                agent_resp)

\* The session as postprocess_node leaves it.
Postprocessed(session, agent_resp, error) ==
    IF Degraded(agent_resp, error)
       THEN [session EXCEPT
                !.messages = Append(@, Message(ASSISTANT, FALLBACK_REPLY))]
       ELSE ApplySummary(
                ApplyPlanAction(
                    [session EXCEPT
                        !.messages =
                            Append(@, Message(ASSISTANT, agent_resp.response_to_user))],
                    agent_resp),
                agent_resp)

\* ------------------------------------------------------------------------
\* backend/server.py: the response of POST /chat
\* ------------------------------------------------------------------------

CHAT_ERROR_TEXT == Str(<<"Sorry, something went wrong. Please try again.">>, 0)

\* Seeded fault: the count is taken as the index of the latest version.
PlanVersionCountBehind(session) ==
    IF Len(session.plan_versions) > 0 THEN Len(session.plan_versions) - 1 ELSE None

\* len(plan_versions) if plan_versions else None
PlanVersionCount(session) ==
    IF Len(session.plan_versions) > 0 THEN Len(session.plan_versions) ELSE None

ChatResponse(updated_session, agent_resp, error) ==
    IF Degraded(agent_resp, error)
       THEN [response              |-> CHAT_ERROR_TEXT,
             plan                  |-> updated_session.current_plan,
             action                |-> "NONE",
             change_summary        |-> None,
             plan_summary          |-> None,
             conversation_summary  |-> updated_session.conversation_summary,
             turn_count            |-> updated_session.turn_count,
             plan_version          |-> PlanVersionCount(updated_session),
             awaiting_confirmation |-> FALSE]
       ELSE [response              |-> agent_resp.response_to_user,
             plan                  |-> IF agent_resp.action # "NONE"
                                          THEN agent_resp.plan
                                          ELSE updated_session.current_plan,
             action                |-> agent_resp.action,
             change_summary        |-> agent_resp.change_summary,
             plan_summary          |-> agent_resp.plan_summary,
             conversation_summary  |-> agent_resp.conversation_summary,
             turn_count            |-> updated_session.turn_count,
             plan_version          |-> PlanVersionCount(updated_session),
             awaiting_confirmation |-> updated_session.pending_plan # None]

\* ------------------------------------------------------------------------
\* backend/session_store.py: MongoDB documents
\* ------------------------------------------------------------------------

\* session.model_dump(mode="json"): the document, field by field.
model_dump(session) ==
    [session_id           |-> session.session_id,
     user_id              |-> session.user_id,
     messages             |-> session.messages,
     current_plan         |-> session.current_plan,
     pending_plan         |-> session.pending_plan,
     plan_versions        |-> session.plan_versions,
     user_preferences     |-> session.user_preferences,
     compressed_context   |-> session.compressed_context,
     conversation_summary |-> session.conversation_summary,
     turn_count           |-> session.turn_count]

\* Session.model_validate(doc): a fresh Session from the document's fields.
model_validate(doc) ==
    [session_id           |-> doc.session_id,
     user_id              |-> doc.user_id,
     messages             |-> doc.messages,
     current_plan         |-> doc.current_plan,
     pending_plan         |-> doc.pending_plan,
     plan_versions        |-> doc.plan_versions,
     user_preferences     |-> doc.user_preferences,
     compressed_context   |-> doc.compressed_context,
     conversation_summary |-> doc.conversation_summary,
     turn_count           |-> doc.turn_count]

\* ------------------------------------------------------------------------
\* The environment: requests, and what the LLM collaborator can return
\* ------------------------------------------------------------------------

SessionIds == {"A", "B"}
Users == {"u1", "u2"}
Reqs == {"r1"}
Refs == {"o1", "o2"}

NoRef == "null"
Free == [free |-> TRUE]

U_SHORT == Str(<<"hi">>, 0)
\* 12000 characters, and the keyword "concise" in capitals.
U_LONG == Str(<<"Concise">>, 11993)
UserInputs == {U_SHORT, U_LONG}

REPLY == Str(<<"ok">>, 0)
CHANGE == Str(<<"changed">>, 0)
RUNNING_SUMMARY == Str(<<"so", "far">>, 0)
DIGEST == Str(<<"digest">>, 0)

\* AgentResponse objects the structured-output call can return: action is
\* required, plan / change_summary / plan_summary / conversation_summary are
\* Optional.  A covering family: every action with each of the two plans and
\* with no plan; a change_summary that is present, None and empty; a
\* conversation_summary that is present and None.
AgentResponses ==
    [action               : ActionType,
     response_to_user     : {REPLY},
     plan                 : {[title |-> "p1"]},
     change_summary       : {CHANGE},
     plan_summary         : {None},
     conversation_summary : {RUNNING_SUMMARY}]
    \cup
    [action               : ActionType,
     response_to_user     : {REPLY},
     plan                 : {[title |-> "p2"]},
     change_summary       : {None, EmptyStr},
     plan_summary         : {None},
     conversation_summary : {None}]
    \cup
    [action               : ActionType,
     response_to_user     : {REPLY},
     plan                 : {None},
     change_summary       : {None},
     plan_summary         : {None},
     conversation_summary : {RUNNING_SUMMARY}]

\* str(e) of the exception generate_node catches.
ErrorTexts == {EmptyStr, Str(<<"timeout">>, 0)}

\* response.content of the summarization call.
Summaries == {EmptyStr, DIGEST}

\* ------------------------------------------------------------------------
\* State
\* ------------------------------------------------------------------------

VARIABLES
    storeKind,        \* "memory" or "mongo": what create_session_store built
    mem_store,        \* InMemorySessionStore._store: session id -> reference
    collection,       \* MongoSessionStore._collection: session id -> document
    heap,             \* the Session objects: reference -> value
    pc,               \* where each request's handler stands
    req,              \* the ChatRequest and the authenticated user
    sess,             \* state["session"] of the running graph
    agent_response,   \* state["agent_response"]
    error,            \* state["error"]
    llm_call,         \* the outstanding LLM call, if any
    response,         \* what POST /chat answered
    submitted,        \* observer: calls of run_agent so far
    summarize_failures, \* observer: summarization calls that raised
    applied_cu,       \* observer: CREATE / UPDATE branches postprocess took
    pre,              \* observer: the session as store.get returned it
    ingested,         \* observer: the session as preprocess_node returned it
    overlapped,       \* observer: a turn on the session began during another
    saved             \* observer: what the store.save calls so far carried

vars == <<storeKind, mem_store, collection, heap, pc, req, sess,
          agent_response, error, llm_call, response,
          submitted, summarize_failures, applied_cu, pre, ingested,
          overlapped, saved>>

\* Objects no variable of the program refers to any more are dropped.
Collect(h, store, refs) ==
    [o \in DOMAIN h |->
        IF (\E sid \in SessionIds : store[sid] = o) \/ (\E r \in DOMAIN refs : refs[r] = o)
           THEN h[o] ELSE Free]

NewRef(h) == CHOOSE o \in DOMAIN h : h[o] = Free

\* No store.save yet: no turn saved, no plan version saved.
NothingSaved == [sid \in SessionIds |-> [turns |-> 0, versions |-> 0]]

\* store.get(session_id) as a value: the session a reader of the store sees.
Stored(sid) ==
    IF storeKind = "memory"
       THEN (IF mem_store[sid] = NoRef THEN None ELSE heap[mem_store[sid]])
       ELSE (IF collection[sid] = None THEN None ELSE model_validate(collection[sid]))

Idle(r) == pc[r] \in {"idle", "done", "failed"}

Init ==
    /\ storeKind \in {"memory", "mongo"}
    /\ mem_store = [sid \in SessionIds |->
                      IF storeKind = "memory" /\ sid = "A" THEN "o1" ELSE NoRef]
    /\ collection = [sid \in SessionIds |->
                       IF storeKind = "mongo" /\ sid = "A"
                          THEN model_dump(Session("A", "u1")) ELSE None]
    /\ heap = [o \in Refs |->
                 IF storeKind = "memory" /\ o = "o1" THEN Session("A", "u1") ELSE Free]
    /\ pc = [r \in Reqs |-> "idle"]
    /\ req = [r \in Reqs |-> None]
    /\ sess = [r \in Reqs |-> NoRef]
    /\ agent_response = [r \in Reqs |-> None]
    /\ error = [r \in Reqs |-> None]
    /\ llm_call = [r \in Reqs |-> None]
    /\ response = [r \in Reqs |-> None]
    /\ submitted = 0
    /\ summarize_failures = 0
    /\ applied_cu = 0
    /\ pre = [r \in Reqs |-> None]
    /\ ingested = [r \in Reqs |-> None]
    /\ overlapped = [sid \in SessionIds |-> FALSE]
    /\ saved = NothingSaved

\* ------------------------------------------------------------------------
\* POST /chat, step by step
\* ------------------------------------------------------------------------

\* A new request enters the handler: what the last one left is gone.
Entered(r, sid, uid, msg) ==
    /\ req' = [req EXCEPT ![r] = [session_id |-> sid, message |-> msg, user_id |-> uid]]
    /\ agent_response' = [agent_response EXCEPT ![r] = None]
    /\ error' = [error EXCEPT ![r] = None]
    /\ llm_call' = [llm_call EXCEPT ![r] = None]
    /\ ingested' = [ingested EXCEPT ![r] = None]
    /\ overlapped' = [overlapped EXCEPT ![sid] =
           @ \/ \E q \in DOMAIN pc \ {r} : ~Idle(q) /\ req[q].session_id = sid]

\* A request that is turned away leaves nothing of itself but its answer.
Rejected(r, status) ==
    /\ req' = [req EXCEPT ![r] = None]
    /\ agent_response' = [agent_response EXCEPT ![r] = None]
    /\ error' = [error EXCEPT ![r] = None]
    /\ llm_call' = [llm_call EXCEPT ![r] = None]
    /\ ingested' = [ingested EXCEPT ![r] = None]
    /\ pre' = [pre EXCEPT ![r] = None]
    /\ pc' = [pc EXCEPT ![r] = "done"]
    /\ response' = [response EXCEPT ![r] = [status |-> status]]
    /\ sess' = [sess EXCEPT ![r] = NoRef]
    /\ heap' = Collect(heap, mem_store, sess')
    /\ UNCHANGED <<overlapped, saved,
                   storeKind, mem_store, collection, submitted,
                   summarize_failures, applied_cu>>

\* chat: store.get returns None -> 404.
ChatNotFound(r, sid, uid) ==
    /\ Idle(r)
    /\ Stored(sid) = None
    /\ Rejected(r, 404)

\* chat: the session belongs to another user -> 403.
ChatDenied(r, sid, uid) ==
    /\ Idle(r)
    /\ Stored(sid) # None
    /\ Stored(sid).user_id # uid
    /\ Rejected(r, 403)

\* Seeded fault: the ownership test is missing, any user's request enters
\* run_agent with the session.
ChatBeginAnyUser(r, sid, uid, msg) ==
    /\ Idle(r)
    /\ submitted < MaxTurns
    /\ Stored(sid) # None
    /\ Entered(r, sid, uid, msg)
    /\ LET dropped == Collect(heap, mem_store, [sess EXCEPT ![r] = NoRef])
           ref     == IF storeKind = "memory" THEN mem_store[sid] ELSE NewRef(dropped)
       IN /\ sess' = [sess EXCEPT ![r] = ref]
          /\ heap' = IF storeKind = "memory" THEN dropped
                     ELSE [dropped EXCEPT ![ref] = model_validate(collection[sid])]
    /\ pc' = [pc EXCEPT ![r] = "preprocess"]
    /\ response' = [response EXCEPT ![r] = None]
    /\ pre' = [pre EXCEPT ![r] = Stored(sid)]
    /\ submitted' = submitted + 1
    /\ UNCHANGED <<saved, storeKind, mem_store, collection, summarize_failures,
                   applied_cu>>

\* chat: store.get found the user's session; run_agent is entered with it.
\* The in-memory store hands out its own object, the MongoDB store a fresh
\* one validated from the document.
ChatBegin(r, sid, uid, msg) ==
    /\ Idle(r)
    /\ submitted < MaxTurns
    /\ Stored(sid) # None
    /\ Stored(sid).user_id = uid
    /\ Entered(r, sid, uid, msg)
    /\ LET dropped == Collect(heap, mem_store, [sess EXCEPT ![r] = NoRef])
           ref     == IF storeKind = "memory" THEN mem_store[sid] ELSE NewRef(dropped)
       IN /\ sess' = [sess EXCEPT ![r] = ref]
          /\ heap' = IF storeKind = "memory" THEN dropped
                     ELSE [dropped EXCEPT ![ref] = model_validate(collection[sid])]
    /\ pc' = [pc EXCEPT ![r] = "preprocess"]
    /\ response' = [response EXCEPT ![r] = None]
    /\ pre' = [pre EXCEPT ![r] = Stored(sid)]
    /\ submitted' = submitted + 1
    /\ UNCHANGED <<saved, storeKind, mem_store, collection, summarize_failures,
                   applied_cu>>

\* maybe_compress(session, llm) up to its return or its suspension, called
\* on the object state["session"] refers to: below the threshold, or with
\* nothing to compress, it returns the object it was given; otherwise it
\* awaits compress_history.
MaybeCompress(r, session) ==
    /\ heap' = [heap EXCEPT ![sess[r]] =
                   IF CompressionFires(session)
                      THEN AwaitingSummary(session) ELSE session]
    /\ IF CompressionFires(session)
          THEN /\ pc' = [pc EXCEPT ![r] = "summarizing"]
               /\ llm_call' = [llm_call EXCEPT ![r] =
                      [kind  |-> "summarize",
                       input |-> CompressionPrompt(all_to_compress(session),
                                                   session.current_plan,
                                                   session.user_preferences)]]
               /\ UNCHANGED ingested
          ELSE /\ pc' = [pc EXCEPT ![r] = "generate"]
               /\ ingested' = [ingested EXCEPT ![r] = session]
               /\ UNCHANGED llm_call

\* preprocess_node up to the first suspension: the user message, the turn
\* count and the preferences are written into the session object in place;
\* maybe_compress then returns the same object, or calls the summarizer.
Preprocess(r) ==
    /\ pc[r] = "preprocess"
    /\ MaybeCompress(r, Ingest(heap[sess[r]], req[r].message))
    /\ UNCHANGED <<overlapped, saved,
                   storeKind, mem_store, collection, req, sess, agent_response,
                   error, response, submitted, summarize_failures, applied_cu, pre>>

\* Seeded fault: the summarization call is not awaited to its end, it is
\* still outstanding when maybe_compress returns.
SummarizeReturnLeavesCallOpen(r, compressed) ==
    /\ pc[r] = "summarizing"
    /\ LET new_session == CompressedCopy(heap[sess[r]], compressed)
           ref         == NewRef(heap)
       IN /\ sess' = [sess EXCEPT ![r] = ref]
          /\ heap' = Collect([heap EXCEPT ![ref] = new_session], mem_store, sess')
          /\ ingested' = [ingested EXCEPT ![r] = new_session]
    /\ pc' = [pc EXCEPT ![r] = "generate"]
    /\ UNCHANGED <<overlapped, saved,
                   storeKind, mem_store, collection, req, agent_response, error,
                   llm_call, response, submitted, summarize_failures, applied_cu, pre>>

\* The summarization call returns: maybe_compress deep-copies the session,
\* and the copy becomes state["session"].
SummarizeReturn(r, compressed) ==
    /\ pc[r] = "summarizing"
    /\ LET new_session == CompressedCopy(heap[sess[r]], compressed)
           ref         == NewRef(heap)
       IN /\ sess' = [sess EXCEPT ![r] = ref]
          /\ heap' = Collect([heap EXCEPT ![ref] = new_session], mem_store, sess')
          /\ ingested' = [ingested EXCEPT ![r] = new_session]
    /\ pc' = [pc EXCEPT ![r] = "generate"]
    /\ llm_call' = [llm_call EXCEPT ![r] = None]
    /\ UNCHANGED <<overlapped, saved,
                   storeKind, mem_store, collection, req, agent_response, error,
                   response, submitted, summarize_failures, applied_cu, pre>>

\* The summarization call raises: nothing catches it, so maybe_compress,
\* preprocess_node, graph.ainvoke, run_agent and chat are all left by the
\* exception, before the deep copy and before store.save.
SummarizeFail(r) ==
    /\ pc[r] = "summarizing"
    /\ pc' = [pc EXCEPT ![r] = "failed"]
    /\ llm_call' = [llm_call EXCEPT ![r] = None]
    /\ response' = [response EXCEPT ![r] = [status |-> 500]]
    /\ summarize_failures' = summarize_failures + 1
    /\ UNCHANGED <<overlapped, saved,
                   storeKind, mem_store, collection, heap, req, sess,
                   agent_response, error, submitted, applied_cu, pre, ingested>>

\* generate_node builds lc_messages and awaits the structured-output call.
Generate(r) ==
    /\ pc[r] = "generate"
    /\ pc' = [pc EXCEPT ![r] = "deciding"]
    /\ llm_call' = [llm_call EXCEPT ![r] =
           [kind |-> "decide", input |-> lc_messages(heap[sess[r]])]]
    /\ UNCHANGED <<overlapped, saved,
                   storeKind, mem_store, collection, heap, req, sess,
                   agent_response, error, response, submitted,
                   summarize_failures, applied_cu, pre, ingested>>

\* The structured-output call returns an AgentResponse, or None when the
\* model's answer held no structured object.
DecideReturn(r, agent_resp) ==
    /\ pc[r] = "deciding"
    /\ pc' = [pc EXCEPT ![r] = "postprocess"]
    /\ agent_response' = [agent_response EXCEPT ![r] = agent_resp]
    /\ error' = [error EXCEPT ![r] = None]
    /\ llm_call' = [llm_call EXCEPT ![r] = None]
    /\ UNCHANGED <<overlapped, saved,
                   storeKind, mem_store, collection, heap, req, sess, response,
                   submitted, summarize_failures, applied_cu, pre, ingested>>

\* Seeded fault: generate_node calls the model again whenever the call raised.
DecideFailRetries(r, text) ==
    /\ pc[r] = "deciding"
    /\ pc' = [pc EXCEPT ![r] = "generate"]
    /\ llm_call' = [llm_call EXCEPT ![r] = None]
    /\ UNCHANGED <<overlapped, saved,
                   storeKind, mem_store, collection, heap, req, sess,
                   agent_response, error, response, submitted, summarize_failures,
                   applied_cu, pre, ingested>>

\* The structured-output call raises: generate_node catches it and records
\* str(e); agent_response keeps the None of the initial state.
DecideFail(r, text) ==
    /\ pc[r] = "deciding"
    /\ pc' = [pc EXCEPT ![r] = "postprocess"]
    /\ error' = [error EXCEPT ![r] = text]
    /\ llm_call' = [llm_call EXCEPT ![r] = None]
    /\ UNCHANGED <<overlapped, saved,
                   storeKind, mem_store, collection, heap, req, sess,
                   agent_response, response, submitted, summarize_failures,
                   applied_cu, pre, ingested>>

\* Whether postprocess_node takes its CREATE or its UPDATE branch.
AppendsVersion(agent_resp, err) ==
    /\ ~Degraded(agent_resp, err)
    /\ agent_resp.action \in {"CREATE", "UPDATE"}
    /\ agent_resp.plan # None

\* postprocess_node: the session object is updated in place.
Postprocess(r) ==
    /\ pc[r] = "postprocess"
    /\ pc' = [pc EXCEPT ![r] = "save"]
    /\ heap' = [heap EXCEPT ![sess[r]] =
                   Postprocessed(heap[sess[r]], agent_response[r], error[r])]
    /\ applied_cu' = IF AppendsVersion(agent_response[r], error[r])
                        THEN applied_cu + 1 ELSE applied_cu
    /\ UNCHANGED <<overlapped, saved,
                   storeKind, mem_store, collection, req, sess, agent_response,
                   error, llm_call, response, submitted, summarize_failures,
                   pre, ingested>>

\* Seeded fault: save inserts and never replaces: a session already stored
\* under the id stays as it is.
SavedInsertOnly(updated_session_ref) ==
    LET sid == heap[updated_session_ref].session_id
    IN IF storeKind = "memory"
          THEN /\ mem_store' = [mem_store EXCEPT ![sid] =
                                   IF @ = NoRef THEN updated_session_ref ELSE @]
               /\ UNCHANGED collection
          ELSE /\ collection' = [collection EXCEPT ![sid] =
                                    IF @ = None
                                       THEN model_dump(heap[updated_session_ref])
                                       ELSE @]
               /\ UNCHANGED mem_store

\* Seeded fault: every session is stored under one key.
SavedUnderOneKey(updated_session_ref) ==
    IF storeKind = "memory"
       THEN /\ mem_store' = [mem_store EXCEPT !["A"] = updated_session_ref]
            /\ UNCHANGED collection
       ELSE /\ collection' = [collection EXCEPT !["A"] =
                                 model_dump(heap[updated_session_ref])]
            /\ UNCHANGED mem_store

\* store.save(updated_session): the in-memory store keeps the object, the
\* MongoDB store replaces the document by the object's dump.
Saved(updated_session_ref) ==
    LET sid == heap[updated_session_ref].session_id
    IN IF storeKind = "memory"
          THEN /\ mem_store' = [mem_store EXCEPT ![sid] = updated_session_ref]
               /\ UNCHANGED collection
          ELSE /\ collection' = [collection EXCEPT ![sid] =
                                    model_dump(heap[updated_session_ref])]
               /\ UNCHANGED mem_store

\* chat after run_agent: persist the session, answer the request.
ChatFinish(r) ==
    /\ pc[r] = "save"
    /\ Saved(sess[r])
    /\ response' = [response EXCEPT ![r] =
           [status |-> 200,
            body   |-> ChatResponse(heap[sess[r]], agent_response[r], error[r])]]
    /\ pc' = [pc EXCEPT ![r] = "done"]
    /\ sess' = [sess EXCEPT ![r] = NoRef]
    /\ heap' = Collect(heap, mem_store', sess')
    /\ saved' = [saved EXCEPT ![heap[sess[r]].session_id] =
           [turns    |-> @.turns + 1,
            versions |-> IF AppendsVersion(agent_response[r], error[r])
                            THEN @.versions + 1 ELSE @.versions]]
    /\ UNCHANGED <<overlapped, storeKind, req, agent_response, error, llm_call,
                   submitted, summarize_failures, applied_cu, pre, ingested>>

\* Turns are submitted one after another: a request enters the handler only
\* when no other request is inside it.
Serialized(r) == \A q \in Reqs \ {r} : Idle(q)

Next ==
    \E r \in Reqs :
        \/ \E sid \in SessionIds, uid \in Users :
              /\ Serialized(r)
              /\ \/ ChatNotFound(r, sid, uid)
                 \/ ChatDenied(r, sid, uid)
                 \/ \E msg \in UserInputs : ChatBegin(r, sid, uid, msg)
        \/ Preprocess(r)
        \/ \E compressed \in Summaries : SummarizeReturn(r, compressed)
        \/ SummarizeFail(r)
        \/ Generate(r)
        \/ \E agent_resp \in AgentResponses \cup {None} : DecideReturn(r, agent_resp)
        \/ \E text \in ErrorTexts : DecideFail(r, text)
        \/ Postprocess(r)
        \/ ChatFinish(r)

Spec == Init /\ [][Next]_vars

\* One step of the turn of r past store.get: the event loop resumes the
\* handler at each await, and an LLM call that is outstanding returns or
\* raises.
TurnStep(r) ==
    \/ Preprocess(r)
    \/ \E compressed \in Summaries : SummarizeReturn(r, compressed)
    \/ SummarizeFail(r)
    \/ Generate(r)
    \/ \E agent_resp \in AgentResponses \cup {None} : DecideReturn(r, agent_resp)
    \/ \E text \in ErrorTexts : DecideFail(r, text)
    \/ Postprocess(r)
    \/ ChatFinish(r)

\* The same turns, with the handler of a request that is inside chat never
\* left waiting forever.
SpecLive == Init /\ [][Next]_vars /\ \A r \in Reqs : WF_vars(TurnStep(r))

\* ------------------------------------------------------------------------
\* Redaction: the is_blocked flag of a stored message
\* ------------------------------------------------------------------------

\* Messages of one session that may carry the flag at the same time.
MaxBlocked == 1

BlockedCount(messages) ==
    Cardinality({i \in 1..Len(messages) : messages[i].is_blocked})

\* Message.is_blocked = True on the i-th message of a session at rest: on
\* the object the in-memory store holds, on the document of the MongoDB
\* collection.
Redact(sid, i) ==
    /\ \A r \in Reqs : Idle(r)
    /\ Stored(sid) # None
    /\ i \in 1..Len(Stored(sid).messages)
    /\ BlockedCount(Stored(sid).messages) < MaxBlocked
    /\ IF storeKind = "memory"
          THEN /\ heap' = [heap EXCEPT ![mem_store[sid]].messages[i].is_blocked = TRUE]
               /\ UNCHANGED collection
          ELSE /\ collection' = [collection EXCEPT ![sid].messages[i].is_blocked = TRUE]
               /\ UNCHANGED heap
    /\ UNCHANGED <<overlapped, saved,
                   storeKind, mem_store, pc, req, sess, agent_response, error,
                   llm_call, response, submitted, summarize_failures,
                   applied_cu, pre, ingested>>

NextRedaction ==
    \/ Next
    \/ \E sid \in SessionIds, i \in 1..(2 * MaxTurns) : Redact(sid, i)

\* Chat turns on a store whose messages can be redacted between turns.
SpecRedaction == Init /\ [][NextRedaction]_vars

\* ------------------------------------------------------------------------
\* maybe_compress called on its own
\* ------------------------------------------------------------------------

\* Longest message list of a session handed to maybe_compress.
MaxMessages == 6

\* Calls of maybe_compress in a row, each on the session the last returned.
MaxCalls == 2

\* Message contents of 6000, 5999 and 2 characters: lists of them fall
\* below, on and above the 24000-character threshold.
M_6000 == Str(<<"a">>, 5999)
M_5999 == Str(<<"b">>, 5998)
CompressContents == {M_6000, M_5999, U_SHORT}

\* A conversation with these contents: the user and the assistant alternate.
Conversation(contents) ==
    [i \in 1..Len(contents) |->
        Message(IF i % 2 = 1 THEN USER ELSE ASSISTANT, contents[i])]

Conversations ==
    UNION {{Conversation(c) : c \in [1..n -> CompressContents]} : n \in 0..MaxMessages}

\* compressed_context of a session: never set, set to "", set to a digest.
Digests == {None, EmptyStr, DIGEST}

\* The other fields: as create_session left them, or as turns with a
\* proposal, a confirmed plan and a stated preference left them.
PlainSession == Session("A", "u1")

BusySession ==
    [Session("A", "u1") EXCEPT
        !.current_plan = [title |-> "p1"],
        !.pending_plan = [title |-> "p2"],
        !.plan_versions = << PlanVersion(1, [title |-> "p1"], CHANGE) >>,
        !.user_preferences = DictSet(<<>>, "tone", "formal"),
        !.conversation_summary = RUNNING_SUMMARY,
        !.turn_count = 9]

CompressSessions ==
    {[base EXCEPT !.messages = messages, !.compressed_context = digest] :
        base \in {PlainSession, BusySession},
        messages \in Conversations,
        digest \in Digests}

\* A session object the in-memory store holds is about to be handed to
\* maybe_compress.
InitCompress ==
    /\ storeKind = "memory"
    /\ mem_store = [sid \in SessionIds |-> IF sid = "A" THEN "o1" ELSE NoRef]
    /\ collection = [sid \in SessionIds |-> None]
    /\ \E session \in CompressSessions :
          /\ heap = [o \in Refs |-> IF o = "o1" THEN session ELSE Free]
          /\ pre = [r \in Reqs |-> session]
    /\ pc = [r \in Reqs |-> "compress"]
    /\ req = [r \in Reqs |-> None]
    /\ sess = [r \in Reqs |-> "o1"]
    /\ agent_response = [r \in Reqs |-> None]
    /\ error = [r \in Reqs |-> None]
    /\ llm_call = [r \in Reqs |-> None]
    /\ response = [r \in Reqs |-> None]
    /\ submitted = 1
    /\ summarize_failures = 0
    /\ applied_cu = 0
    /\ ingested = [r \in Reqs |-> None]
    /\ overlapped = [sid \in SessionIds |-> FALSE]
    /\ saved = NothingSaved

\* session = await maybe_compress(session, llm), on the session as it is.
CompressCall(r) ==
    /\ pc[r] = "compress"
    /\ MaybeCompress(r, heap[sess[r]])
    /\ UNCHANGED <<overlapped, saved,
                   storeKind, mem_store, collection, req, sess, agent_response,
                   error, response, submitted, summarize_failures, applied_cu, pre>>

\* The caller keeps the session maybe_compress returned and hands it to
\* maybe_compress again.
CompressAgain(r) ==
    /\ pc[r] = "generate"
    /\ submitted < MaxCalls
    /\ mem_store' = [mem_store EXCEPT !["A"] = sess[r]]
    /\ heap' = Collect(heap, mem_store', sess)
    /\ pre' = [pre EXCEPT ![r] = heap[sess[r]]]
    /\ ingested' = [ingested EXCEPT ![r] = None]
    /\ pc' = [pc EXCEPT ![r] = "compress"]
    /\ submitted' = submitted + 1
    /\ UNCHANGED <<overlapped, saved,
                   storeKind, collection, req, sess, agent_response, error,
                   llm_call, response, summarize_failures, applied_cu>>

NextCompress ==
    \E r \in Reqs :
        \/ CompressCall(r)
        \/ \E compressed \in Summaries : SummarizeReturn(r, compressed)
        \/ SummarizeFail(r)
        \/ CompressAgain(r)

SpecCompress == InitCompress /\ [][NextCompress]_vars

\* ------------------------------------------------------------------------
\* extract_preferences called on its own
\* ------------------------------------------------------------------------

\* Words of a text handed to extract_preferences.
MaxWords == 2

\* The catalog's keywords, keywords in capitals, words that contain a
\* keyword, and a word that matches nothing.
PreferenceWords ==
    {"detailed", "brief", "concise", "verbose", "short", "formal", "casual",
     "professional", "friendly", "Concise", "FORMAL", "Informal", "shortly", "hi"}

PreferenceTexts ==
    UNION {{Str(toks, 0) : toks \in [1..n -> PreferenceWords]} : n \in 0..MaxWords}

\* user_preferences as earlier turns can have left them, and a mapping with
\* a category of its own.
ExistingPreferences ==
    {<<>>,
     DictSet(<<>>, "tone", "casual"),
     DictSet(<<>>, "detail_level", "detailed"),
     DictSet(DictSet(<<>>, "tone", "formal"), "detail_level", "brief"),
     DictSet(DictSet(<<>>, "tone", "casual"), "language", "fr")}

\* A text and a dict (object o1) are about to be handed to extract_preferences.
InitPreferences ==
    /\ storeKind = "memory"
    /\ mem_store = [sid \in SessionIds |-> NoRef]
    /\ collection = [sid \in SessionIds |-> None]
    /\ \E text \in PreferenceTexts, existing \in ExistingPreferences :
          /\ heap = [o \in Refs |-> IF o = "o1" THEN existing ELSE Free]
          /\ pre = [r \in Reqs |-> [text |-> text, existing |-> existing]]
    /\ pc = [r \in Reqs |-> "extract"]
    /\ req = [r \in Reqs |-> None]
    /\ sess = [r \in Reqs |-> NoRef]
    /\ agent_response = [r \in Reqs |-> None]
    /\ error = [r \in Reqs |-> None]
    /\ llm_call = [r \in Reqs |-> None]
    /\ response = [r \in Reqs |-> None]
    /\ submitted = 0
    /\ summarize_failures = 0
    /\ applied_cu = 0
    /\ ingested = [r \in Reqs |-> None]
    /\ overlapped = [sid \in SessionIds |-> FALSE]
    /\ saved = NothingSaved

\* updated = extract_preferences(text, existing): the returned dict is a new
\* object (o2), the caller still holds the one it passed.
ExtractPreferences(r) ==
    /\ pc[r] = "extract"
    /\ heap' = [heap EXCEPT
                  !["o1"] = ExistingAfterExtract(pre[r].text, heap["o1"]),
                  !["o2"] = extract_preferences(pre[r].text, heap["o1"])]
    /\ response' = [response EXCEPT ![r] = [returned |-> "o2"]]
    /\ pc' = [pc EXCEPT ![r] = "extracted"]
    /\ UNCHANGED <<overlapped, saved,
                   storeKind, mem_store, collection, req, sess, agent_response,
                   error, llm_call, submitted, summarize_failures, applied_cu,
                   pre, ingested>>

NextPreferences == \E r \in Reqs : ExtractPreferences(r)

SpecPreferences == InitPreferences /\ [][NextPreferences]_vars

\* ------------------------------------------------------------------------
\* build_context_messages called on its own
\* ------------------------------------------------------------------------

\* Longest message list of a session handed to build_context_messages.
MaxContextMessages == 3

\* Messages of either speaker, blocked or not.
ContextMessages ==
    [role : {USER, ASSISTANT}, content : {U_SHORT, REPLY}, is_blocked : BOOLEAN]

ContextSessions ==
    {[Session("A", "u1") EXCEPT !.messages = messages,
                                !.compressed_context = digest] :
        messages \in UNION {[1..n -> ContextMessages] : n \in 0..MaxContextMessages},
        digest \in Digests}

\* A session object (o1) is about to be handed to build_context_messages.
InitContext ==
    /\ storeKind = "memory"
    /\ mem_store = [sid \in SessionIds |-> IF sid = "A" THEN "o1" ELSE NoRef]
    /\ collection = [sid \in SessionIds |-> None]
    /\ \E session \in ContextSessions :
          /\ heap = [o \in Refs |-> IF o = "o1" THEN session ELSE Free]
          /\ pre = [r \in Reqs |-> session]
    /\ pc = [r \in Reqs |-> "assemble"]
    /\ req = [r \in Reqs |-> None]
    /\ sess = [r \in Reqs |-> "o1"]
    /\ agent_response = [r \in Reqs |-> None]
    /\ error = [r \in Reqs |-> None]
    /\ llm_call = [r \in Reqs |-> None]
    /\ response = [r \in Reqs |-> None]
    /\ submitted = 0
    /\ summarize_failures = 0
    /\ applied_cu = 0
    /\ ingested = [r \in Reqs |-> None]
    /\ overlapped = [sid \in SessionIds |-> FALSE]
    /\ saved = NothingSaved

\* context = build_context_messages(session)
BuildContext(r) ==
    /\ pc[r] = "assemble"
    /\ response' = [response EXCEPT ![r] =
           [returned |-> build_context_messages(heap[sess[r]])]]
    /\ heap' = [heap EXCEPT ![sess[r]] = SessionAfterContext(heap[sess[r]])]
    /\ pc' = [pc EXCEPT ![r] = "assembled"]
    /\ UNCHANGED <<overlapped, saved,
                   storeKind, mem_store, collection, req, sess, agent_response,
                   error, llm_call, submitted, summarize_failures, applied_cu,
                   pre, ingested>>

NextContext == \E r \in Reqs : BuildContext(r)

SpecContext == InitContext /\ [][NextContext]_vars

\* ------------------------------------------------------------------------
\* Requests the caller does not serialize
\* ------------------------------------------------------------------------

\* Two requests may be inside chat at once: each await (the store's get and
\* save, the summarization call, the decision call) lets the other run.
ConcurrentReqs == {"r1", "r2"}
ConcurrentRefs == {"o1", "o2", "o3", "o4"}

\* Session A after two turns that left four messages of 6000 characters:
\* the next user message takes it over the compression threshold.
LoadedSession ==
    [Session("A", "u1") EXCEPT
        !.messages = Conversation(<<M_6000, M_6000, M_6000, M_6000>>),
        !.turn_count = 2]

\* What the decision call returns here: a proposal, a created plan.
ConcurrentResponses ==
    {agent_resp \in AgentResponses :
        /\ agent_resp.action \in {"PROPOSE", "CREATE"}
        /\ agent_resp.plan = [title |-> "p1"]
        /\ agent_resp.change_summary = CHANGE}

\* Sessions A (of u1, new or loaded) and B (of u2, new) exist.
InitConcurrent ==
    /\ storeKind \in {"memory", "mongo"}
    /\ \E a \in {Session("A", "u1"), LoadedSession} :
          LET created == [sid \in SessionIds |->
                             IF sid = "A" THEN a ELSE Session("B", "u2")]
          IN /\ mem_store = [sid \in SessionIds |->
                               IF storeKind = "memory"
                                  THEN (IF sid = "A" THEN "o1" ELSE "o2")
                                  ELSE NoRef]
             /\ collection = [sid \in SessionIds |->
                                IF storeKind = "mongo"
                                   THEN model_dump(created[sid]) ELSE None]
             /\ heap = [o \in ConcurrentRefs |->
                          IF storeKind = "memory" /\ o = "o1" THEN created["A"]
                          ELSE IF storeKind = "memory" /\ o = "o2" THEN created["B"]
                          ELSE Free]
    /\ pc = [r \in ConcurrentReqs |-> "idle"]
    /\ req = [r \in ConcurrentReqs |-> None]
    /\ sess = [r \in ConcurrentReqs |-> NoRef]
    /\ agent_response = [r \in ConcurrentReqs |-> None]
    /\ error = [r \in ConcurrentReqs |-> None]
    /\ llm_call = [r \in ConcurrentReqs |-> None]
    /\ response = [r \in ConcurrentReqs |-> None]
    /\ submitted = 0
    /\ summarize_failures = 0
    /\ applied_cu = 0
    /\ pre = [r \in ConcurrentReqs |-> None]
    /\ ingested = [r \in ConcurrentReqs |-> None]
    /\ overlapped = [sid \in SessionIds |-> FALSE]
    /\ saved = [sid \in SessionIds |->
                  [turns    |-> Stored(sid).turn_count,
                   versions |-> Len(Stored(sid).plan_versions)]]

\* Any request may take its next step, whatever the other is doing.
NextConcurrent ==
    \E r \in ConcurrentReqs :
        \/ \E sid \in SessionIds : ChatBegin(r, sid, Stored(sid).user_id, U_SHORT)
        \/ Preprocess(r)
        \/ SummarizeReturn(r, DIGEST)
        \/ SummarizeFail(r)
        \/ Generate(r)
        \/ \E agent_resp \in ConcurrentResponses : DecideReturn(r, agent_resp)
        \/ DecideFail(r, EmptyStr)
        \/ Postprocess(r)
        \/ ChatFinish(r)

SpecConcurrent == InitConcurrent /\ [][NextConcurrent]_vars

\* ------------------------------------------------------------------------
\* Views used by the properties
\* ------------------------------------------------------------------------

InFlight(r) == ~Idle(r)

AllIdle == \A r \in Reqs : Idle(r)

\* The session of the turn that request r runs.
Cur(r) == heap[sess[r]]

\* The session with this id: the object the running turn works on, and the
\* store's session when no turn is running on it.
TheSession(sid) ==
    IF \E r \in Reqs : InFlight(r) /\ req[r].session_id = sid
       THEN Cur(CHOOSE r \in Reqs : InFlight(r) /\ req[r].session_id = sid)
       ELSE Stored(sid)

\* postprocess_node has just run for r, on a decision (not on the degraded path).
Applied(r) == pc[r] = "save" /\ ~Degraded(agent_response[r], error[r])

\* The turn of r has ended with an answer after its decision call failed.
EndedDegraded(r) ==
    /\ pc[r] = "done"
    /\ response[r] # None
    /\ response[r].status = 200
    /\ Degraded(agent_response[r], error[r])

\* maybe_compress replaced the session during the turn of r.
CompressedThisTurn(r) ==
    /\ ingested[r] # None
    /\ Len(ingested[r].messages) <= Len(pre[r].messages)

HasReply(session, content) ==
    \E i \in 1..Len(session.messages) :
        session.messages[i] = Message(ASSISTANT, content)

\* ------------------------------------------------------------------------
\* Properties
\* ------------------------------------------------------------------------

\* C1: after any sequence of turns submitted one after another to the session
\* that started empty, each turn's decision call succeeding or failing (and
\* every summarization call returning), turn_count equals the number of
\* turns submitted.
C1_TurnCountEqualsTurnsSubmitted ==
    (AllIdle /\ summarize_failures = 0) => Stored("A").turn_count = submitted

\* C1 witness: at least two turns are over, one that failed at Decide and one
\* that was applied.
C1_Witness ==
    /\ AllIdle
    /\ summarize_failures = 0
    /\ submitted >= 2
    /\ HasReply(Stored("A"), FALLBACK_REPLY)
    /\ HasReply(Stored("A"), REPLY)
    /\ Stored("A").turn_count = submitted

\* C2: in every session state the versions are numbered 1, 2, 3, ... and
\* there are as many of them as CREATE and UPDATE decisions applied.
C2_VersionsDenseAndCounted ==
    /\ \A o \in Refs :
          heap[o] # Free =>
             \A i \in 1..Len(heap[o].plan_versions) :
                heap[o].plan_versions[i].version = i
    /\ \A i \in 1..Len(Stored("A").plan_versions) :
          Stored("A").plan_versions[i].version = i
    /\ Len(TheSession("A").plan_versions) = applied_cu

\* C2 witness: a CREATE and then an UPDATE have been applied and saved.
C2_Witness ==
    /\ AllIdle
    /\ Len(Stored("A").plan_versions) >= 2
    /\ applied_cu >= 2

\* C3 as stated: every CREATE decision, with or without a plan, clears
\* pending_plan, sets current_plan to the decision's plan and appends one
\* PlanVersion.
C3_EveryCreatePromotes ==
    \A r \in Reqs :
        (Applied(r) /\ agent_response[r].action = "CREATE") =>
            /\ Cur(r).pending_plan = None
            /\ Cur(r).current_plan = agent_response[r].plan
            /\ Len(Cur(r).plan_versions) = Len(ingested[r].plan_versions) + 1

\* C3 amended: a CREATE decision that carries a plan clears pending_plan, sets
\* current_plan to that plan and appends one PlanVersion holding it; a CREATE
\* decision without a plan leaves pending_plan, current_plan and
\* plan_versions as they were.
C3_CreateWithPlanPromotes ==
    \A r \in Reqs :
        (Applied(r) /\ agent_response[r].action = "CREATE") =>
            IF agent_response[r].plan # None
               THEN /\ Cur(r).pending_plan = None
                    /\ Cur(r).current_plan = agent_response[r].plan
                    /\ Len(Cur(r).plan_versions) = Len(ingested[r].plan_versions) + 1
                    /\ SubSeq(Cur(r).plan_versions, 1, Len(ingested[r].plan_versions))
                          = ingested[r].plan_versions
                    /\ Cur(r).plan_versions[Len(Cur(r).plan_versions)].plan
                          = agent_response[r].plan
               ELSE /\ Cur(r).pending_plan = ingested[r].pending_plan
                    /\ Cur(r).current_plan = ingested[r].current_plan
                    /\ Cur(r).plan_versions = ingested[r].plan_versions

\* C3 witness: a CREATE carrying a plan has been applied while a proposal was
\* pending.
C3_Witness ==
    \E r \in Reqs :
        /\ Applied(r)
        /\ agent_response[r].action = "CREATE"
        /\ agent_response[r].plan # None
        /\ ingested[r].pending_plan # None
        /\ Cur(r).pending_plan = None

\* C4: a PROPOSE decision makes its plan the pending plan and leaves
\* current_plan and plan_versions as they were before the turn.
C4_ProposeSetsPendingOnly ==
    \A r \in Reqs :
        (Applied(r) /\ agent_response[r].action = "PROPOSE") =>
            /\ agent_response[r].plan # None =>
                  Cur(r).pending_plan = agent_response[r].plan
            /\ Cur(r).current_plan = pre[r].current_plan
            /\ Cur(r).plan_versions = pre[r].plan_versions

\* C4 witness: a PROPOSE has been applied on a session that has a confirmed
\* plan different from the proposed one.
C4_Witness ==
    \E r \in Reqs :
        /\ Applied(r)
        /\ agent_response[r].action = "PROPOSE"
        /\ agent_response[r].plan # None
        /\ pre[r].current_plan # None
        /\ pre[r].current_plan # agent_response[r].plan
        /\ pre[r].pending_plan # agent_response[r].plan
        /\ Cur(r).pending_plan = agent_response[r].plan

\* C5: an UPDATE decision makes its plan the current plan, appends exactly
\* one PlanVersion numbered previous length + 1, and leaves pending_plan as
\* it was: a proposal pending before is pending after.
C5_UpdateAppendsKeepsPending ==
    \A r \in Reqs :
        (Applied(r) /\ agent_response[r].action = "UPDATE") =>
            /\ Cur(r).pending_plan = ingested[r].pending_plan
            /\ agent_response[r].plan # None =>
                  /\ Cur(r).current_plan = agent_response[r].plan
                  /\ Len(Cur(r).plan_versions) = Len(ingested[r].plan_versions) + 1
                  /\ SubSeq(Cur(r).plan_versions, 1, Len(ingested[r].plan_versions))
                        = ingested[r].plan_versions
                  /\ LET last == Cur(r).plan_versions[Len(Cur(r).plan_versions)]
                     IN /\ last.version = Len(ingested[r].plan_versions) + 1
                        /\ last.plan = agent_response[r].plan

\* C5 witness: an UPDATE has been applied while a proposal was pending, on a
\* session that already had a version.
C5_Witness ==
    \E r \in Reqs :
        /\ Applied(r)
        /\ agent_response[r].action = "UPDATE"
        /\ agent_response[r].plan # None
        /\ ingested[r].pending_plan # None
        /\ Len(ingested[r].plan_versions) >= 1
        /\ Cur(r).pending_plan = ingested[r].pending_plan

\* A step in which postprocess_node applies a decision of the given action
\* that carries a plan.
AppliesStep(r, action) ==
    /\ pc[r] = "postprocess"
    /\ pc'[r] = "save"
    /\ ~Degraded(agent_response[r], error[r])
    /\ agent_response[r].action = action
    /\ agent_response[r].plan # None

PendingPlan == TheSession("A").pending_plan

CurrentPlan == TheSession("A").current_plan

\* C6: over every step (ingest, compression, decide, apply, degraded path,
\* save), pending_plan is set only by the application of a PROPOSE decision
\* and is dropped only by the application of a CREATE decision.
C6_PendingOnlyByProposeAndCreate ==
    [][ PendingPlan' # PendingPlan =>
          \E r \in Reqs :
             \/ AppliesStep(r, "PROPOSE") /\ PendingPlan' = agent_response[r].plan
             \/ AppliesStep(r, "CREATE") /\ PendingPlan' = None ]_vars

\* C6 witness: a proposal that was pending through a turn in which
\* compression fired has been dropped by that turn's CREATE.
C6_Witness ==
    \E r \in Reqs :
        /\ Applied(r)
        /\ CompressedThisTurn(r)
        /\ agent_response[r].action = "CREATE"
        /\ pre[r].pending_plan # None
        /\ ingested[r].pending_plan = pre[r].pending_plan
        /\ PendingPlan = None

\* C7: over every step, current_plan changes only by the application of a
\* CREATE or an UPDATE decision; NONE decisions (also with a plan), PROPOSE
\* decisions, ingest, compression and failed turns leave it alone.
C7_CurrentPlanOnlyByCreateAndUpdate ==
    [][ CurrentPlan' # CurrentPlan =>
          \E r \in Reqs :
             /\ AppliesStep(r, "CREATE") \/ AppliesStep(r, "UPDATE")
             /\ CurrentPlan' = agent_response[r].plan ]_vars

\* C7 witness: a NONE decision carrying a plan has been applied to a session
\* whose confirmed plan is another one, and the confirmed plan is still there.
C7_Witness ==
    \E r \in Reqs :
        /\ Applied(r)
        /\ agent_response[r].action = "NONE"
        /\ agent_response[r].plan # None
        /\ pre[r].current_plan # None
        /\ pre[r].current_plan # agent_response[r].plan
        /\ CurrentPlan = pre[r].current_plan

\* C8: when the decision call fails the decision is not applied: after the
\* turn the stored current_plan, pending_plan, plan_versions and
\* conversation_summary are those from before the turn, and what Ingest did
\* (user message, turn_count, preferences, compression) is stored, followed
\* by the fallback reply.
C8_FailedDecisionKeepsPlanCommitsIngest ==
    \A r \in Reqs :
        EndedDegraded(r) =>
            LET s    == Stored(req[r].session_id)
                b    == pre[r]
                g    == ingested[r]
                user == Message(USER, req[r].message)
            IN /\ s.current_plan = b.current_plan
               /\ s.pending_plan = b.pending_plan
               /\ s.plan_versions = b.plan_versions
               /\ s.conversation_summary = b.conversation_summary
               /\ s.turn_count = b.turn_count + 1
               /\ s.messages = g.messages \o << Message(ASSISTANT, FALLBACK_REPLY) >>
               /\ g.messages[Len(g.messages)] = user
               /\ IF CompressedThisTurn(r)
                     THEN Len(g.messages) = keep_recent
                     ELSE /\ g.messages = Append(b.messages, user)
                          /\ g.compressed_context = b.compressed_context
               /\ s.compressed_context = g.compressed_context
               /\ s.user_preferences = g.user_preferences
               /\ ContainsWord(req[r].message, "concise") =>
                     /\ "detail_level" \in DOMAIN s.user_preferences
                     /\ s.user_preferences["detail_level"] = "brief"

\* C8 witness: a turn whose decision call raised has ended on a session with
\* a confirmed plan, a pending proposal and a running summary, after
\* compression fired in that turn.
C8_Witness ==
    \E r \in Reqs :
        /\ EndedDegraded(r)
        /\ error[r] # None
        /\ CompressedThisTurn(r)
        /\ pre[r].pending_plan # None
        /\ pre[r].current_plan # None
        /\ pre[r].conversation_summary # None
        /\ Stored(req[r].session_id).pending_plan = pre[r].pending_plan

\* C9 as stated: the stored turn_count goes up by one for every user message
\* handed to the chat turn, whichever LLM call of the turn fails.
C9_StoredTurnCountCountsEveryTurn ==
    AllIdle => Stored("A").turn_count = submitted

\* C10: when the summarization call fails the turn ends with the failure
\* (no decision, no reply), and the session still holds the messages and the
\* compressed_context it held when compression started.
C10_FailedSummaryLosesNothing ==
    \A r \in Reqs :
        pc[r] = "failed" =>
            LET user == Message(USER, req[r].message)
            IN /\ response[r] = [status |-> 500]
               /\ agent_response[r] = None
               /\ error[r] = None
               /\ llm_call[r] = None
               /\ Cur(r).messages = Append(pre[r].messages, user)
               /\ Cur(r).compressed_context = pre[r].compressed_context
               /\ Stored(req[r].session_id).messages
                     \in {pre[r].messages, Append(pre[r].messages, user)}
               /\ Stored(req[r].session_id).compressed_context
                     = pre[r].compressed_context

\* C10 witness: a summarization call has failed on a session holding
\* messages older than the last four.
C10_Witness ==
    \E r \in Reqs :
        /\ pc[r] = "failed"
        /\ Len(Cur(r).messages) > keep_recent
        /\ Cur(r).messages[Len(Cur(r).messages)].role = USER

\* ------------------------------------------------------------------------
\* Blocked messages (C11, C12)
\* ------------------------------------------------------------------------

\* get_history: what GET /session/{id}/history returns to the owner of a
\* session the store holds.
get_history(sid) ==
    [i \in 1..Len(Stored(sid).messages) |->
        [role    |-> Stored(sid).messages[i].role,
         content |-> Stored(sid).messages[i].content]]

Entries(seq) == {seq[i] : i \in 1..Len(seq)}

\* What the blocked messages of a list say that no unblocked message of the
\* list says too.
Redacted(messages) ==
    {[role |-> messages[i].role, content |-> messages[i].content] :
        i \in {j \in 1..Len(messages) : messages[j].is_blocked}}
    \ {[role |-> messages[i].role, content |-> messages[i].content] :
        i \in {j \in 1..Len(messages) : ~messages[j].is_blocked}}

\* Whatever a blocked message of the stored session says, be it the only
\* message saying it or not.
BlockedEntries(sid) ==
    IF Stored(sid) = None THEN {}
    ELSE {[role |-> Stored(sid).messages[i].role,
           content |-> Stored(sid).messages[i].content] :
             i \in {j \in 1..Len(Stored(sid).messages) :
                       Stored(sid).messages[j].is_blocked}}

\* C11: a message whose is_blocked flag is true never appears in the context
\* assembled for the LLM, and it stays in the session's message log: whatever
\* happens next (compression included), the session's history still returns it.
C11_BlockedHiddenAndKept ==
    [][ /\ \A r \in Reqs :
              InFlight(r) =>
                 Entries(build_context_messages(Cur(r)))
                    \cap Redacted(Cur(r).messages) = {}
        /\ \A sid \in SessionIds :
              \A entry \in BlockedEntries(sid) :
                  entry \in Entries(get_history(sid)') ]_vars

\* C12: once a message is blocked, what it says is in no later LLM input
\* built from the session: not in the input of the decision call, and not in
\* the conversation text maybe_compress hands to the summarizer.
C12_BlockedContentReachesNoLLM ==
    \A r \in Reqs :
        llm_call[r] # None =>
            IF llm_call[r].kind = "decide"
               THEN Entries(llm_call[r].input) \cap Redacted(Cur(r).messages) = {}
               ELSE Entries(llm_call[r].input.history)
                       \cap Redacted(Cur(r).messages) = {}

\* ------------------------------------------------------------------------
\* The message log (C13)
\* ------------------------------------------------------------------------

IsPrefix(s, t) == Len(s) <= Len(t) /\ SubSeq(t, 1, Len(s)) = s

\* session.messages of the session the store holds under this id.
Log(sid) == IF Stored(sid) = None THEN <<>> ELSE Stored(sid).messages

\* C13 as stated: session.messages is an append-only full audit log: every
\* message ever appended to the session is still in it, in its original
\* order, so the stored log only ever grows at its end.
C13_LogIsAppendOnly ==
    [][ \A sid \in SessionIds : IsPrefix(Log(sid), Log(sid)') ]_vars

\* C13 amended: session.messages is append-only between compressions.  A
\* step either extends the stored log at its end, or it saves a turn in
\* which compression fired, and then the log is the last 4 of the messages
\* the turn had ingested (the log before the turn plus the user message), in
\* their order, followed by the turn's reply.
C13_LogAppendOnlyBetweenCompressions ==
    [][ \A sid \in SessionIds :
          \/ IsPrefix(Log(sid), Log(sid)')
          \/ \E r \in Reqs :
                /\ pc[r] = "save"
                /\ req[r].session_id = sid
                /\ CompressedThisTurn(r)
                /\ LET full == Append(pre[r].messages, Message(USER, req[r].message))
                   IN /\ Len(full) > keep_recent
                      /\ Len(Log(sid)') = keep_recent + 1
                      /\ SubSeq(Log(sid)', 1, keep_recent)
                            = SubSeq(full, Len(full) - keep_recent + 1, Len(full))
                      /\ Log(sid)'[keep_recent + 1].role = ASSISTANT ]_vars

\* C13 witness: a turn in which compression fired has been saved, and the
\* stored log is shorter than the log the turn started from.
C13_Witness ==
    \E r \in Reqs :
        /\ pc[r] = "done"
        /\ response[r] # None
        /\ response[r].status = 200
        /\ CompressedThisTurn(r)
        /\ ~IsPrefix(pre[r].messages, Log("A"))
        /\ Len(Log("A")) = keep_recent + 1

\* ------------------------------------------------------------------------
\* maybe_compress as a function (C14 .. C17)
\* ------------------------------------------------------------------------

\* The session object handed to the running call of maybe_compress.
Given == heap[mem_store["A"]]

\* The characters of all messages plus those of compressed_context.
TotalLength(session) ==
    SumContentLen(session.messages)
    + (IF session.compressed_context = None
          THEN 0 ELSE StrLen(session.compressed_context))

\* No message older than the last 4, and no compressed_context to fold in
\* (None, or the empty string).
NothingToCompress(session) ==
    /\ Len(session.messages) <= 4
    /\ (session.compressed_context = None \/ session.compressed_context = EmptyStr)

LastFour(messages) ==
    IF Len(messages) <= 4 THEN messages
    ELSE SubSeq(messages, Len(messages) - 3, Len(messages))

\* C14: maybe_compress returns the session it was given, unchanged and with
\* no LLM call, when the total length of the messages plus compressed_context
\* is below the threshold, or when no message is older than the last 4 and
\* there is no compressed_context; in every other case (total at or above the
\* threshold) it calls the summarizer, and what it then returns holds the
\* summary and the last 4 messages.
C14_CompressesExactlyWhenDue ==
    [][ \A r \in Reqs :
          /\ pc[r] = "compress" =>
                IF \/ TotalLength(Given) < COMPRESSION_THRESHOLD
                   \/ NothingToCompress(Given)
                   THEN /\ pc'[r] = "generate"
                        /\ llm_call'[r] = None
                        /\ sess'[r] = sess[r]
                        /\ heap' = heap
                   ELSE /\ pc'[r] = "summarizing"
                        /\ llm_call'[r] # None
                        /\ llm_call'[r].kind = "summarize"
          /\ pc[r] = "summarizing" /\ pc'[r] = "generate" =>
                /\ heap'[sess'[r]].compressed_context \in Summaries
                /\ heap'[sess'[r]].messages = LastFour(pre[r].messages) ]_vars

\* C14 witness: on the boundary.  A session of more than 4 messages whose
\* total is exactly the threshold has been handed to the summarizer.
C14_Witness ==
    \E r \in Reqs :
        /\ pc[r] = "summarizing"
        /\ TotalLength(Given) = COMPRESSION_THRESHOLD
        /\ Len(Given.messages) > 4
        /\ llm_call[r].kind = "summarize"

\* C15 as stated: whenever a session with no compressed_context holds
\* messages of at least 24000 characters in total, maybe_compress fires:
\* the session it returns has compressed_context set and exactly 4 messages.
C15_FiresAtThreshold ==
    \A r \in Reqs :
        /\ pc[r] = "generate"
        /\ pre[r].compressed_context = None
        /\ SumContentLen(pre[r].messages) >= 24000
        => /\ Cur(r).compressed_context # None
           /\ Len(Cur(r).messages) = 4

\* C15 amended: whenever a session with no compressed_context holds more
\* than 4 messages of at least 24000 characters in total, maybe_compress
\* calls the summarizer, and the session it returns when the call returns
\* has the summary as its compressed_context and exactly 4 messages, the
\* last 4 of the session it was given.
C15_FiresAtThresholdWithOlderMessages ==
    \A r \in Reqs :
        /\ pre[r].compressed_context = None
        /\ SumContentLen(pre[r].messages) >= 24000
        /\ Len(pre[r].messages) > 4
        => /\ pc[r] \in {"compress", "summarizing", "generate", "failed"}
           /\ pc[r] = "failed" => summarize_failures > 0
           /\ pc[r] = "summarizing" => llm_call[r].kind = "summarize"
           /\ pc[r] = "generate" =>
                 /\ Cur(r).compressed_context \in Summaries
                 /\ Len(Cur(r).messages) = 4
                 /\ Cur(r).messages = LastFour(pre[r].messages)
                 /\ sess[r] # mem_store["A"]

\* C15 witness: a session of 5 messages and no compressed_context, exactly
\* 24000 characters in total, has come back with a digest and 4 messages.
C15_Witness ==
    \E r \in Reqs :
        /\ pc[r] = "generate"
        /\ pre[r].compressed_context = None
        /\ Len(pre[r].messages) = 5
        /\ SumContentLen(pre[r].messages) = 24000
        /\ Cur(r).compressed_context = DIGEST
        /\ Len(Cur(r).messages) = 4

\* The session handed to the running call is one an earlier call returned
\* right after compressing: a copy, not the object the first call was given.
GivenIsCompressedCopy == submitted > 1 /\ mem_store["A"] # "o1"

\* C16: compression is idempotent.  A call of maybe_compress on the session
\* that a call returned right after compression fired makes no summarization
\* call and returns that session unchanged, whatever the session was.
C16_RerunAfterCompressionIsNoOp ==
    \A r \in Reqs :
        GivenIsCompressedCopy =>
            /\ pc[r] \in {"compress", "generate"}
            /\ llm_call[r] = None
            /\ pc[r] = "generate" => sess[r] = mem_store["A"] /\ Cur(r) = pre[r]

\* C17: maybe_compress never mutates the session it is given.  Through the
\* whole call, on the path that returns at once and on the path that
\* compresses (the summarization call returning or raising), every field of
\* the given session keeps the value it had at the call; and when
\* compression fires, what is returned is another object than the one given.
C17_GivenSessionUntouched ==
    [][ \A r \in Reqs :
          /\ Given = pre[r]
          /\ Given' = pre'[r]
          /\ pc[r] = "summarizing" /\ pc'[r] = "generate" =>
                /\ sess'[r] # sess[r]
                /\ sess'[r] # mem_store'["A"]
                /\ heap[sess'[r]] = Free ]_vars

\* C17 witness: compression fired on a session with a digest and a plan, the
\* returned copy differs from the given session, and the given session is
\* as it was.
C17_Witness ==
    \E r \in Reqs :
        /\ pc[r] = "generate"
        /\ sess[r] # mem_store["A"]
        /\ Cur(r) # Given
        /\ Given = pre[r]
        /\ Given.compressed_context = DIGEST
        /\ Given.current_plan # None
        /\ Len(Given.messages) > 4

\* ------------------------------------------------------------------------
\* The answer of POST /chat (C18 .. C20)
\* ------------------------------------------------------------------------

\* The turn of r has been answered with a ChatResponse.
Answered(r) ==
    /\ pc[r] = "done"
    /\ response[r] # None
    /\ response[r].status = 200

\* C18: the response's awaiting_confirmation is true exactly when the
\* session's pending_plan is set after the turn, whatever the turn's outcome:
\* a decision of any action, or the degraded path after a failed decision.
C18_AwaitingConfirmationTellsPending ==
    \A r \in Reqs :
        Answered(r) =>
            (response[r].body.awaiting_confirmation
                <=> Stored(req[r].session_id).pending_plan # None)

\* Whether an Optional[int] is None, told by how the value prints (a number
\* and None cannot be compared with =).
IsNone(v) == ToString(v) = ToString(None)

\* C19 as stated: the response's plan_version is the number of entries of
\* the session's plan_versions after the turn, zero included, and its
\* turn_count is the session's turn_count after the turn.
C19_PlanVersionIsTheCount ==
    \A r \in Reqs :
        Answered(r) =>
            /\ ~IsNone(response[r].body.plan_version)
            /\ response[r].body.plan_version
                  = Len(Stored(req[r].session_id).plan_versions)
            /\ response[r].body.turn_count = Stored(req[r].session_id).turn_count

\* C19 amended: the response's plan_version is the number of entries of the
\* session's plan_versions after the turn when there is at least one, and
\* None when there is none; its turn_count is the session's turn_count after
\* the turn.
C19_PlanVersionIsTheCountOrNone ==
    \A r \in Reqs :
        Answered(r) =>
            LET session == Stored(req[r].session_id)
            IN /\ Len(session.plan_versions) > 0 =>
                     /\ ~IsNone(response[r].body.plan_version)
                     /\ response[r].body.plan_version = Len(session.plan_versions)
               /\ Len(session.plan_versions) = 0 =>
                     IsNone(response[r].body.plan_version)
               /\ response[r].body.turn_count = session.turn_count

\* C19 witness: the answer of a third turn reports the second plan version.
C19_Witness ==
    \E r \in Reqs :
        /\ Answered(r)
        /\ ~IsNone(response[r].body.plan_version)
        /\ response[r].body.plan_version = 2
        /\ response[r].body.turn_count = 3
        /\ Len(Stored(req[r].session_id).plan_versions) = 2

\* C20: a chat request naming an unknown session id, or a session of another
\* user, is rejected before the Orchestrator runs.  A request enters
\* run_agent only with a session the store holds and its requester owns;
\* and the step that answers 404 or 403 appends no message, counts no turn,
\* makes no LLM call and saves nothing: the store and every session in it
\* are as before.
C20_RejectedBeforeTheOrchestrator ==
    [][ \A r \in Reqs :
          Idle(r) =>
             /\ pc'[r] = "preprocess" =>
                   /\ Stored(req'[r].session_id) # None
                   /\ Stored(req'[r].session_id).user_id = req'[r].user_id
                   /\ pre'[r].user_id = req'[r].user_id
             /\ pc'[r] = "done" =>
                   /\ response'[r] \in {[status |-> 404], [status |-> 403]}
                   /\ mem_store' = mem_store
                   /\ collection' = collection
                   /\ \A sid \in SessionIds : Stored(sid)' = Stored(sid)
                   /\ llm_call'[r] = None
                   /\ sess'[r] = NoRef
                   /\ submitted' = submitted ]_vars

\* C20 witness: after two turns on session A, a request was answered 403,
\* and the session still counts two turns.
C20_Witness ==
    \E r \in Reqs :
        /\ pc[r] = "done"
        /\ response[r] = [status |-> 403]
        /\ submitted = 2
        /\ Stored("A").turn_count = 2
        /\ Len(Stored("A").messages) = 4

\* ------------------------------------------------------------------------
\* The version log (C21, C23)
\* ------------------------------------------------------------------------

\* plan_versions of the session with this id.
Versions(sid) == IF TheSession(sid) = None THEN <<>> ELSE TheSession(sid).plan_versions

\* C21: plan_versions is an append-only log.  Over every step of every turn
\* (the compression copy and the save included), each PlanVersion that was
\* in the log is still there, at the same index, with the same version,
\* plan and change_summary; both in the session the turn works on and in the
\* session the store holds.
C21_VersionsAppendOnly ==
    [][ \A sid \in SessionIds :
          /\ IsPrefix(Versions(sid), Versions(sid)')
          /\ Stored(sid) # None =>
                IsPrefix(Stored(sid).plan_versions, Stored(sid)'.plan_versions) ]_vars

\* C21 witness: a turn in which compression copied the session has appended
\* a third version to the two the session already had, and was saved.
C21_Witness ==
    \E r \in Reqs :
        /\ Answered(r)
        /\ CompressedThisTurn(r)
        /\ Len(pre[r].plan_versions) = 2
        /\ Len(Stored("A").plan_versions) = 3
        /\ IsPrefix(pre[r].plan_versions, Stored("A").plan_versions)

\* ------------------------------------------------------------------------
\* extract_preferences as a function (C22)
\* ------------------------------------------------------------------------

PreferenceCategories ==
    {PREFERENCE_KEYWORDS[n][1] : n \in 1..Len(PREFERENCE_KEYWORDS)}

\* The catalog entries of a category whose keyword occurs in the lower-cased
\* text, by their place in the scan order.
MatchingEntries(text, category) ==
    {n \in 1..Len(PREFERENCE_KEYWORDS) :
        /\ PREFERENCE_KEYWORDS[n][1] = category
        /\ ContainsWord(text, PREFERENCE_KEYWORDS[n][2])}

Latest(entries) == CHOOSE n \in entries : \A m \in entries : m <= n

\* C22: extract_preferences(text, existing) returns a new mapping that is
\* existing except that each category with a catalog keyword occurring in the
\* lower-cased text has the value of the last such keyword in scan order;
\* categories without a match keep their value (so a text without keywords
\* gives a mapping equal to existing), and existing itself is not mutated.
C22_LastKeywordInScanOrderWins ==
    \A r \in Reqs :
        pc[r] = "extracted" =>
            LET text     == pre[r].text
                existing == pre[r].existing
                updated  == heap[response[r].returned]
                matched  == {c \in PreferenceCategories :
                                MatchingEntries(text, c) # {}}
            IN /\ DOMAIN updated = DOMAIN existing \cup matched
               /\ \A c \in matched :
                     updated[c] =
                        PREFERENCE_KEYWORDS[Latest(MatchingEntries(text, c))][3]
               /\ \A c \in DOMAIN existing \ matched : updated[c] = existing[c]
               /\ matched = {} => updated = existing
               /\ response[r].returned # "o1"
               /\ heap["o1"] = existing

\* C22 witness: "brief detailed" names two keywords of detail_level; the
\* later one in scan order, brief, is the value, although it comes first in
\* the text; tone and language are as they were.
C22_Witness ==
    \E r \in Reqs :
        /\ pc[r] = "extracted"
        /\ pre[r].text = Str(<<"brief", "detailed">>, 0)
        /\ pre[r].existing = DictSet(DictSet(<<>>, "tone", "casual"), "language", "fr")
        /\ heap["o2"]["detail_level"] = "brief"
        /\ heap["o2"]["tone"] = "casual"
        /\ heap["o2"]["language"] = "fr"
        /\ heap["o1"] = pre[r].existing

\* C23: every PlanVersion a CREATE or an UPDATE appends has a non-empty
\* change_summary: the decision's change_summary when that is present and
\* non-empty, otherwise the fixed text of the branch.  So no version of any
\* session, in a turn or in the store, has an empty or missing summary.
C23_EveryVersionHasASummary ==
    /\ \A sid \in SessionIds :
          \A i \in 1..Len(Versions(sid)) :
             /\ Versions(sid)[i].change_summary # None
             /\ StrLen(Versions(sid)[i].change_summary) > 0
    /\ \A r \in Reqs :
          Applied(r) /\ AppendsVersion(agent_response[r], error[r]) =>
             LET given == agent_response[r].change_summary
                 last  == Cur(r).plan_versions[Len(Cur(r).plan_versions)]
             IN last.change_summary =
                   IF given # None /\ given # EmptyStr THEN given
                   ELSE IF agent_response[r].action = "CREATE"
                           THEN Str(<<"Plan confirmed and created.">>, 0)
                           ELSE Str(<<"Plan updated.">>, 0)

\* C23 witness: an UPDATE whose change_summary is the empty string has been
\* applied after a CREATE without change_summary, and the log holds the two
\* fixed texts.
C23_Witness ==
    \E r \in Reqs :
        /\ Applied(r)
        /\ agent_response[r].action = "UPDATE"
        /\ agent_response[r].plan # None
        /\ agent_response[r].change_summary = EmptyStr
        /\ Len(Cur(r).plan_versions) = 2
        /\ Cur(r).plan_versions[1].change_summary = CREATE_FALLBACK_SUMMARY
        /\ Cur(r).plan_versions[2].change_summary = UPDATE_FALLBACK_SUMMARY

\* ------------------------------------------------------------------------
\* Trust in the decision's action (C24)
\* ------------------------------------------------------------------------

\* C24: the Orchestrator applies a CREATE decision without checking for a
\* proposal.  A CREATE with a plan that arrives while pending_plan is none,
\* or with another plan than the pending one, becomes current_plan all the
\* same, clears pending_plan and adds a PlanVersion holding its plan.
C24_CreateAppliedWithoutProposal ==
    \A r \in Reqs :
        /\ Applied(r)
        /\ agent_response[r].action = "CREATE"
        /\ agent_response[r].plan # None
        /\ ingested[r].pending_plan # agent_response[r].plan
        => /\ Cur(r).current_plan = agent_response[r].plan
           /\ Cur(r).pending_plan = None
           /\ Len(Cur(r).plan_versions) = Len(ingested[r].plan_versions) + 1
           /\ Cur(r).plan_versions[Len(Cur(r).plan_versions)].plan
                 = agent_response[r].plan

\* C24 witness: the first decision of a session is a CREATE; no PROPOSE was
\* ever applied, and its plan is the current plan, version 1.
C24_Witness ==
    \E r \in Reqs :
        /\ Applied(r)
        /\ submitted = 1
        /\ agent_response[r].action = "CREATE"
        /\ pre[r].pending_plan = None
        /\ ingested[r].pending_plan = None
        /\ Cur(r).current_plan = [title |-> "p1"]
        /\ Len(Cur(r).plan_versions) = 1

\* ------------------------------------------------------------------------
\* What compression keeps and what it summarizes (C25)
\* ------------------------------------------------------------------------

\* The messages older than the last 4, as the summarizer reads them.
OlderThanLastFour(messages) ==
    [i \in 1..(IF Len(messages) > 4 THEN Len(messages) - 4 ELSE 0) |->
        [role |-> messages[i].role, content |-> messages[i].content]]

\* C25: when compression fires, the summarizer's input is the previous
\* digest (if there is one) as a leading system message, followed by all
\* messages older than the last 4 in their order; and the session returned
\* has exactly the last 4 messages of the input, in their order, and the
\* summarizer's output as compressed_context, in place of the previous digest.
C25_CompressionKeepsTailSummarizesRest ==
    [][ \A r \in Reqs :
          /\ pc'[r] = "summarizing" =>
                llm_call'[r].input.history =
                   (IF pre[r].compressed_context # None
                       /\ pre[r].compressed_context # EmptyStr
                       THEN << [role    |-> SYSTEM,
                                content |-> [tag    |-> "prior_compressed_context",
                                             digest |-> pre[r].compressed_context]] >>
                       ELSE <<>>)
                   \o OlderThanLastFour(pre[r].messages)
          /\ pc[r] = "summarizing" /\ pc'[r] = "generate" =>
                /\ heap'[sess'[r]].messages = LastFour(pre[r].messages)
                /\ heap'[sess'[r]].compressed_context \in Summaries
                /\ \E compressed \in Summaries :
                      heap'[sess'[r]] =
                         [pre[r] EXCEPT !.messages = LastFour(pre[r].messages),
                                        !.compressed_context = compressed] ]_vars

\* C25 witness: a session of 6 messages with a digest came back with its
\* last 4 messages and the new (empty) summary in place of the digest.
C25_Witness ==
    \E r \in Reqs :
        /\ pc[r] = "generate"
        /\ sess[r] # mem_store["A"]
        /\ Len(pre[r].messages) = 6
        /\ pre[r].compressed_context = DIGEST
        /\ Cur(r).compressed_context = EmptyStr
        /\ Cur(r).messages = SubSeq(pre[r].messages, 3, 6)

\* ------------------------------------------------------------------------
\* build_context_messages as a function (C26)
\* ------------------------------------------------------------------------

\* The places of the unblocked messages of a list.
Unblocked(messages) == {i \in 1..Len(messages) : ~messages[i].is_blocked}

\* The k-th unblocked message of a list, by place.
KthUnblocked(messages, k) ==
    CHOOSE i \in Unblocked(messages) :
        Cardinality({j \in Unblocked(messages) : j <= i}) = k

\* C26: build_context_messages returns, in this order, one system entry
\* carrying compressed_context if it is present, then one entry for each
\* message of session.messages that is not blocked, in the messages' order
\* and with their role and content; the session is as it was.
C26_ContextIsDigestThenUnblockedMessages ==
    \A r \in Reqs :
        pc[r] = "assembled" =>
            LET session  == pre[r]
                context  == response[r].returned
                hasNote  == session.compressed_context # None
                            /\ session.compressed_context # EmptyStr
                lead     == IF hasNote THEN 1 ELSE 0
                messages == session.messages
            IN /\ Len(context) = lead + Cardinality(Unblocked(messages))
               /\ hasNote =>
                     /\ context[1].role = SYSTEM
                     /\ context[1].content.digest = session.compressed_context
               /\ \A k \in 1..Cardinality(Unblocked(messages)) :
                     /\ context[lead + k].role
                           = messages[KthUnblocked(messages, k)].role
                     /\ context[lead + k].content
                           = messages[KthUnblocked(messages, k)].content
               /\ heap[sess[r]] = session

\* C26 witness: a digest and three messages, the middle one blocked: the
\* context is the digest's note, the first message and the third.
C26_Witness ==
    \E r \in Reqs :
        /\ pc[r] = "assembled"
        /\ pre[r].compressed_context = DIGEST
        /\ Len(pre[r].messages) = 3
        /\ Unblocked(pre[r].messages) = {1, 3}
        /\ pre[r].messages[1].content # pre[r].messages[3].content
        /\ Len(response[r].returned) = 3
        /\ response[r].returned[2].content = pre[r].messages[1].content
        /\ response[r].returned[3].content = pre[r].messages[3].content

\* ------------------------------------------------------------------------
\* The order of the steps of a turn (C27)
\* ------------------------------------------------------------------------

\* The steps of chat and of the graph preprocess -> generate -> postprocess,
\* as pairs (where the handler stands, where it stands next).
TurnOrder ==
    {<<from, "preprocess">> : from \in {"idle", "done", "failed"}}
    \cup {<<from, "done">> : from \in {"idle", "done", "failed"}}
    \cup {<<"preprocess", "summarizing">>, <<"preprocess", "generate">>,
          <<"summarizing", "generate">>, <<"summarizing", "failed">>,
          <<"generate", "deciding">>, <<"deciding", "postprocess">>,
          <<"postprocess", "save">>, <<"save", "done">>}

\* C27: the steps of a turn happen in one order: the user message is appended,
\* turn_count incremented and the preferences updated; then compression, with
\* at most one summarization call; then the context is assembled from the
\* session compression left and the one decision call is made with it; then
\* postprocess_node applies the decision or takes the degraded path. A call
\* is issued only when no call of the turn is outstanding. A turn whose
\* summarization call raises ends there.
C27_StepsInFixedOrder ==
    [][ \A r \in Reqs :
          /\ pc'[r] # pc[r] => <<pc[r], pc'[r]>> \in TurnOrder
          /\ (llm_call'[r] # None) <=> (pc'[r] \in {"summarizing", "deciding"})
          /\ pc[r] = "preprocess" /\ pc'[r] # "preprocess" =>
                /\ llm_call[r] = None
                /\ heap'[sess[r]].turn_count = pre[r].turn_count + 1
                /\ heap'[sess[r]].messages
                      = Append(pre[r].messages, Message(USER, req[r].message))
                /\ heap'[sess[r]].user_preferences
                      = extract_preferences(req[r].message, pre[r].user_preferences)
                /\ pc'[r] = "summarizing" => llm_call'[r].kind = "summarize"
          /\ pc'[r] = "deciding" /\ pc[r] # "deciding" =>
                /\ llm_call[r] = None
                /\ llm_call'[r].kind = "decide"
                /\ llm_call'[r].input = lc_messages(ingested[r])
                /\ ingested[r].turn_count = pre[r].turn_count + 1
          /\ pc'[r] = "save" /\ pc[r] # "save" =>
                /\ llm_call[r] = None
                /\ \/ Degraded(agent_response[r], error[r])
                   \/ agent_response[r] \in AgentResponses ]_vars

\* C27 witness: a turn that made both calls, the summarization call and then
\* the decision call, and applied the decision.
C27_Witness ==
    \E r \in Reqs :
        /\ Applied(r)
        /\ CompressedThisTurn(r)
        /\ llm_call[r] = None
        /\ Cur(r).turn_count = pre[r].turn_count + 1

\* ------------------------------------------------------------------------
\* The store during a turn (C28)
\* ------------------------------------------------------------------------

\* C28: the session the store holds under an id changes only in the step
\* that calls store.save; from a turn's store.get to its store.save a reader
\* of the store sees the session as it was before the turn.
C28_StoreChangesOnlyAtSave ==
    [][ /\ \A sid \in SessionIds :
              Stored(sid)' # Stored(sid) =>
                  \E r \in Reqs : /\ pc[r] = "save" /\ pc'[r] = "done"
                                  /\ req[r].session_id = sid
        /\ \A r \in Reqs :
              InFlight(r)' => Stored(req[r].session_id)' = pre'[r] ]_vars

\* ------------------------------------------------------------------------
\* Turns on different sessions (C29)
\* ------------------------------------------------------------------------

\* The session a turn leaves when nothing but the turn touches it: the
\* session store.get returned, with the message ingested, compressed if due
\* (the summarizer having returned compressed), the decision applied.
TurnAlone(session, message, compressed, agent_resp, err) ==
    LET after == Ingest(session, message)
    IN Postprocessed(IF CompressionFires(after)
                        THEN CompressedCopy(after, compressed) ELSE after,
                     agent_resp, err)

\* C29: turns on different sessions are independent. A step of a turn
\* changes no stored session but the turn's own; and the session a turn
\* saves is the one the turn alone would have left, whatever turns on the
\* other session did meanwhile.
C29_TurnsOnOtherSessionsIndependent ==
    [][ /\ \A sid \in SessionIds :
              Stored(sid)' # Stored(sid) =>
                  \E r \in ConcurrentReqs : /\ pc'[r] # pc[r]
                                            /\ req'[r].session_id = sid
        /\ \A r \in ConcurrentReqs :
              (/\ pc[r] = "save" /\ pc'[r] = "done"
               /\ ~overlapped[req[r].session_id]) =>
                  \E compressed \in Summaries :
                      Stored(req[r].session_id)' =
                          TurnAlone(pre[r], req[r].message, compressed,
                                    agent_response[r], error[r]) ]_vars

\* C29 witness: the turn of r1 on session A has created a plan and saved it
\* while r2 is in the middle of its second turn on session B; of B's turns
\* only the first is in the store, and nothing of A's.
C29_Witness ==
    /\ pc["r1"] = "done"
    /\ req["r1"].session_id = "A"
    /\ saved["A"].turns = 1
    /\ Len(Stored("A").plan_versions) = 1
    /\ Stored("A").turn_count = pre["r1"].turn_count + 1
    /\ pc["r2"] = "deciding"
    /\ req["r2"].session_id = "B"
    /\ saved["B"].turns = 1
    /\ ~overlapped["A"] /\ ~overlapped["B"]
    /\ Stored("B").plan_versions = <<>>

\* ------------------------------------------------------------------------
\* Turns on one session that are not serialized (C30)
\* ------------------------------------------------------------------------

\* The stored session shows fewer turns, or fewer plan versions, than the
\* store.save calls on it carried: a writer's update is gone.
UpdateLost(sid) ==
    \/ Stored(sid).turn_count < saved[sid].turns
    \/ Len(Stored(sid).plan_versions) < saved[sid].versions

\* C30: as long as every turn on a session began when no other turn on it
\* was running, the stored session counts every turn and holds every plan
\* version that was saved, and a turn that saves finds in the store the
\* pending_plan it read or left itself: no update of another turn is lost.
\* (Turns that overlap can lose one: see C30_Witness.)
C30_SerializedTurnsLoseNoUpdate ==
    [][ \A sid \in SessionIds :
          ~overlapped'[sid] =>
              /\ ~UpdateLost(sid)'
              /\ \A r \in ConcurrentReqs :
                    (pc[r] = "save" /\ pc'[r] = "done" /\ req[r].session_id = sid) =>
                        /\ Stored(sid).pending_plan
                              \in {pre[r].pending_plan, Cur(r).pending_plan}
                        /\ Stored(sid)'.turn_count = saved'[sid].turns
                              \/ storeKind = "memory" ]_vars

\* C30 witness: two turns on session A ran at once, each created a plan and
\* saved; the stored session is the last writer's: one turn counted of two,
\* one plan version of two.
C30_Witness ==
    /\ overlapped["A"]
    /\ \A r \in ConcurrentReqs :
          /\ pc[r] = "done"
          /\ req[r].session_id = "A"
          /\ response[r].status = 200
          /\ pre[r].turn_count = 0
    /\ saved["A"] = [turns |-> 2, versions |-> 2]
    /\ Stored("A").turn_count = 1
    /\ Len(Stored("A").plan_versions) = 1

\* ------------------------------------------------------------------------
\* Termination of a turn (C31)
\* ------------------------------------------------------------------------

\* The turn of r is over: answered after postprocess_node ran (decision
\* applied, or fallback reply), or left by the summarizer's exception.
Terminated(r) ==
    \/ /\ pc[r] = "done"
       /\ response[r].status = 200
       /\ LET messages == Stored(req[r].session_id).messages
          IN /\ messages # <<>>
             /\ messages[Len(messages)] =
                   Message(ASSISTANT,
                           IF Degraded(agent_response[r], error[r])
                              THEN FALLBACK_REPLY
                              ELSE agent_response[r].response_to_user)
    \/ /\ pc[r] = "failed"
       /\ response[r].status = 500

\* C31: provided every LLM call returns or raises, a turn that has entered
\* the graph reaches its end: applied, degraded, or failed in compression.
\* It does not stay before or after the decision call forever.
C31_EveryTurnTerminates ==
    \A r \in Reqs : InFlight(r) ~> Terminated(r)

\* C31 witness: two turns have ended answered, and the third has ended by
\* the summarizer's exception.
C31_Witness ==
    \E r \in Reqs :
        /\ pc[r] = "failed"
        /\ response[r].status = 500
        /\ submitted = 3
        /\ summarize_failures = 1

\* ------------------------------------------------------------------------
\* current_plan and plan_versions (C32)
\* ------------------------------------------------------------------------

\* The sessions there are: the stored ones and those of running turns.
SessionsAtHand ==
    {Stored(sid) : sid \in {id \in SessionIds : Stored(id) # None}}
    \cup {Cur(r) : r \in {q \in Reqs : InFlight(q)}}

\* C32: in every state reached by serialized turns on a session that began
\* empty, current_plan is None exactly when plan_versions is empty, and is
\* otherwise the plan of the last entry of plan_versions.
C32_CurrentPlanIsLastVersion ==
    \A session \in SessionsAtHand :
        /\ (session.current_plan = None) <=> (session.plan_versions = <<>>)
        /\ session.plan_versions # <<>> =>
              session.current_plan
                 = session.plan_versions[Len(session.plan_versions)].plan

\* C32 witness: a second version with another plan than the first has been
\* appended and saved; current_plan is the second plan.
C32_Witness ==
    /\ AllIdle
    /\ Len(Stored("A").plan_versions) = 2
    /\ Stored("A").plan_versions[1].plan # Stored("A").plan_versions[2].plan
    /\ Stored("A").current_plan = Stored("A").plan_versions[2].plan

\* ------------------------------------------------------------------------
\* The user message of the turn at the decision call (C33)
\* ------------------------------------------------------------------------

\* C33: when the decision call is made, the user message of the turn is
\* the last of session.messages and, with role and content as sent, the
\* last entry of the context handed to the model, whether or not
\* maybe_compress replaced the session in this turn.
C33_UserMessageLastAtDecide ==
    \A r \in Reqs :
        pc[r] = "deciding" =>
            LET messages == Cur(r).messages
                context  == llm_call[r].input
            IN /\ messages # <<>>
               /\ messages[Len(messages)] = Message(USER, req[r].message)
               /\ context[Len(context)]
                     = [role |-> USER, content |-> req[r].message]
               /\ CompressedThisTurn(r) =>
                     /\ Len(messages) = keep_recent
                     /\ Cur(r).compressed_context \in Summaries

\* C33 witness: the decision call of a turn in which compression fired.
C33_Witness ==
    \E r \in Reqs :
        /\ pc[r] = "deciding"
        /\ CompressedThisTurn(r)
        /\ Len(pre[r].messages) >= keep_recent
        /\ llm_call[r].input[Len(llm_call[r].input)].content = req[r].message

\* ------------------------------------------------------------------------
\* The assistant message of a turn (C34)
\* ------------------------------------------------------------------------

\* The reply postprocess_node records for a decision or for its failure.
RecordedReply(agent_resp, err) ==
    Message(ASSISTANT,
            IF Degraded(agent_resp, err)
               THEN FALLBACK_REPLY ELSE agent_resp.response_to_user)

\* C34: a turn that gets past Ingest appends exactly one assistant message,
\* right after the turn's user message: response_to_user of the decision,
\* or the fixed fallback text when there is no decision. No other step of
\* the turn past Ingest touches the messages, and the saved session holds
\* them. A fallback that ended the turn before is, like any reply, in the
\* context the next turn hands to the model.
C34_OneAssistantMessagePerTurn ==
    [][ \A r \in Reqs :
          /\ pc[r] = "postprocess" /\ pc'[r] # "postprocess" =>
                /\ Cur(r).messages[Len(Cur(r).messages)]
                      = Message(USER, req[r].message)
                /\ Cur(r)'.messages
                      = Append(Cur(r).messages,
                               RecordedReply(agent_response[r], error[r]))
          /\ pc[r] \in {"generate", "deciding"} /\ pc'[r] # pc[r] =>
                Cur(r)'.messages = Cur(r).messages
          /\ pc[r] = "save" /\ pc'[r] # "save" =>
                Stored(req[r].session_id)'.messages = Cur(r).messages
          /\ (/\ pc'[r] = "deciding" /\ pc[r] # "deciding"
              /\ pre[r].messages # <<>>
              /\ pre[r].messages[Len(pre[r].messages)]
                    = Message(ASSISTANT, FALLBACK_REPLY)) =>
                LET context == llm_call'[r].input
                IN context[Len(context) - 1]
                      = [role |-> ASSISTANT, content |-> FALLBACK_REPLY] ]_vars

\* C34 witness: the turn before ended on the degraded path; its fallback
\* reply is the entry before the user's message in this turn's context.
C34_Witness ==
    \E r \in Reqs :
        /\ pc[r] = "deciding"
        /\ pre[r].messages # <<>>
        /\ pre[r].messages[Len(pre[r].messages)] = Message(ASSISTANT, FALLBACK_REPLY)
        /\ llm_call[r].input[Len(llm_call[r].input) - 1]
              = [role |-> ASSISTANT, content |-> FALLBACK_REPLY]
        /\ Len(Cur(r).messages) = Len(pre[r].messages) + 1

====
